---- MODULE Spec2Model ----
(***************************************************************************)
(* The in-memory request / task / subtask lifecycle tracker                *)
(* (TaskMasterTools, src/src/main/tools/task.py) as a state machine.       *)
(*                                                                         *)
(* The three dictionaries self.requests, self.tasks and self.subtasks are  *)
(* the variables requests, tasks and subtasks (functions from the ids that *)
(* are keys to the stored record).  Every public method is one action; it  *)
(* is the whole method, and the value it returns (or the exception it      *)
(* raises) is recorded in ret.  The MLflow / file writes of the methods    *)
(* touch none of the three dictionaries; they appear where a claim is      *)
(* about their failure.                                                    *)
(*                                                                         *)
(* Representation:                                                         *)
(*   - ids are the integers handed out by nextTask / nextSub / nextReq     *)
(*     (uuid4 ids are fresh, never reused); 0 stands for "no id given";    *)
(*   - a timestamp is the value of clock (seconds) read by datetime.now(); *)
(*     a key that the dictionary does not have yet is NoTime / None /      *)
(*     NoScore / approved = FALSE (the code reads them with .get());       *)
(*   - a description is represented by its character count, the only       *)
(*     thing the tracker ever computes from it; 0 is the empty text;       *)
(*   - a due date is the sequence of the code points of its text, so that  *)
(*     Python's string comparison is LexLess; <<>> is None (or "");        *)
(*   - the confidence score is kept in hundredths.                         *)
(***************************************************************************)
EXTENDS Integers, Sequences, FiniteSets, TLC

VARIABLES requests, tasks, subtasks, nextReq, nextTask, nextSub, clock, ret, selected,
          calls

vars ==
  <<requests, tasks, subtasks, nextReq, nextTask, nextSub, clock, ret, selected, calls>>

state == <<requests, tasks, subtasks>>

(***************************************************************************)
(* Bounds of the model                                                     *)
(***************************************************************************)
MaxRequests == 1

MaxTasks == 2

MaxSubtasks == 2

MaxBatch == 2

MaxTicks == 1

MaxSchedTasks == 3

MaxThreads == 2

MaxCrossRequests == 2

MaxCrossSubtasks == 1

MaxRemarkSubtasks == 2

MaxRemarkTicks == 1

MaxUpdateTasks == 2

MaxUpdateSubtasks == 1

MaxCreateTasks == 2

MaxCreateSubtasks == 2

MaxFinalTasks == 2

MaxFinalSubtasks == 1

MaxWorkerTasks == 4

MaxSinkSubtasks == 2

MaxConcurrentTasks == 2

MaxOwnedRequests == 1

MaxOwnedTasks == 3

MaxOwnedSubtasks == 3

(***************************************************************************)
(* Enumerations and sentinels                                              *)
(***************************************************************************)
PENDING == "PENDING"

IN_PROGRESS == "IN_PROGRESS"

COMPLETED == "COMPLETED"

FAILED == "FAILED"

Status == {PENDING, IN_PROGRESS, COMPLETED, FAILED}

(* a third event is let through *)
EventOrCancelled == {COMPLETED, FAILED, "CANCELLED"}

Event == {COMPLETED, FAILED}

HIGH == "HIGH"

MEDIUM == "MEDIUM"

LOW == "LOW"

AUTO == "AUTO"

AGENT == "AGENT"

MANAGER == "MANAGER"

ApprovalRole == {AUTO, AGENT, MANAGER}

None == "None"

NoTime == -1

NoScore == <<>>

NoId == 0

(* a task spec without its "title" key, or without its "description" key *)
Missing == "<missing key>"

MissingLength == -2

(* "2024-01-01", "2024-06-30" and "9999-12-31" as code points *)
Date_2024_01_01 == <<50, 48, 50, 52, 45, 48, 49, 45, 48, 49>>

Date_2024_06_30 == <<50, 48, 50, 52, 45, 48, 54, 45, 51, 48>>

Date_9999_12_31 == <<57, 57, 57, 57, 45, 49, 50, 45, 51, 49>>

NoDue == <<>>

(* self.auto_decision_threshold = 0.75, as <<hundredths, ulps>> (see Float64Sum) *)
auto_decision_threshold == <<75, 0>>

(***************************************************************************)
(* Pure helpers                                                            *)
(***************************************************************************)
Range(s) == {s[i] : i \in 1..Len(s)}

Front(s) == SubSeq(s, 1, Len(s) - 1)

Last(s) == s[Len(s)]

(* list.remove(x): drops the first occurrence of x *)
RECURSIVE Remove(_, _)
Remove(s, x) ==
  IF s = <<>> THEN <<>>
  ELSE IF Head(s) = x THEN Tail(s)
  ELSE <<Head(s)>> \o Remove(Tail(s), x)

(* Python's < on two strings, given as code point sequences *)
RECURSIVE LexLess(_, _)
LexLess(a, b) ==
  IF a = <<>> THEN b # <<>>
  ELSE IF b = <<>> THEN FALSE
  ELSE IF a[1] # b[1] THEN a[1] < b[1]
  ELSE LexLess(Tail(a), Tail(b))

(* the ranks of HIGH and LOW exchanged *)
PriorityRankSwapped(p) ==
  CASE p = HIGH -> 1
    [] p = MEDIUM -> 2
    [] p = LOW -> 3
    [] OTHER -> 0

(* priority_values.get(t["priority"], 0) *)
PriorityRank(p) ==
  CASE p = HIGH -> 3
    [] p = MEDIUM -> 2
    [] p = LOW -> 1
    [] OTHER -> 0

(* t["due_date"] or "" *)
DueKeyEmpty(d) == d

(* t["due_date"] or "9999-12-31" *)
DueKey(d) == IF d = NoDue THEN Date_9999_12_31 ELSE d

(* the sort key of get_next_task and Python's < on two such tuples *)
SortKey(t) == <<0 - PriorityRank(t.priority), DueKey(t.due_date)>>

(* equal keys count as smaller: the sort is not stable *)
KeyLessOrEqual(k1, k2) == k1[1] < k2[1] \/ (k1[1] = k2[1] /\ ~LexLess(k2[2], k1[2]))

KeyLess(k1, k2) == k1[1] < k2[1] \/ (k1[1] = k2[1] /\ LexLess(k1[2], k2[2]))

(* list.sort(key=...) on a list of task ids: a stable sort, so an element  *)
(* goes in front of the first element whose key is strictly greater        *)
RECURSIVE InsertByKey(_, _, _)
InsertByKey(x, s, T) ==
  IF s = <<>> THEN <<x>>
  ELSE IF KeyLess(SortKey(T[x]), SortKey(T[Head(s)])) THEN <<x>> \o s
  ELSE <<Head(s)>> \o InsertByKey(x, Tail(s), T)

RECURSIVE SortByKey(_, _)
SortByKey(s, T) ==
  IF s = <<>> THEN <<>>
  ELSE InsertByKey(Last(s), SortByKey(Front(s), T), T)

(* the ids of s whose record has status st, in order *)
RECURSIVE SelectIds(_, _, _)
SelectIds(s, T, st) ==
  IF s = <<>> THEN <<>>
  ELSE IF T[Head(s)].status = st THEN <<Head(s)>> \o SelectIds(Tail(s), T, st)
  ELSE SelectIds(Tail(s), T, st)

(* _calculate_execution_time *)
ExecutionTime(obj) ==
  IF obj.completed_at = NoTime THEN 0 ELSE obj.completed_at - obj.created_at

(* a boost of 0.2 for a fast completion *)
TimeFactorDouble(execution_time) ==
  IF execution_time < 30 THEN 20
  ELSE IF execution_time > 300 THEN 0 - 10
  ELSE 0

(* time_factor, in hundredths *)
TimeFactor(execution_time) ==
  IF execution_time < 30 THEN 10
  ELSE IF execution_time > 300 THEN 0 - 10
  ELSE 0

ComplexityFactor(description_len) ==
  IF description_len < 50 THEN 0 - 5
  ELSE IF description_len > 1000 THEN 0 - 10
  ELSE 5

(* base_confidence + time_factor + complexity_factor + history_factor in   *)
(* IEEE-754 double arithmetic, which is what Python computes:              *)
(* <<h, u>> is the double u units in the last place away from the double   *)
(* that the decimal literal h/100 denotes.  0.7 + 0.1 is                   *)
(* 0.7999999999999999, and subtracting 0.05 from 0.8-, 0.7 or 0.6 gives    *)
(* the double just below 0.75, 0.65 and 0.55.                              *)
Float64Sum(tf, cf) ==
  <<70 + tf + cf, IF cf = 0 - 5 THEN 0 - 1 ELSE 0>>

(* Python's >= on two such doubles *)
FloatGeq(a, b) == a[1] > b[1] \/ (a[1] = b[1] /\ a[2] >= b[2])

(* max(0.0, min(1.0, confidence)) *)
Clamp01(c) ==
  IF c[1] < 0 THEN <<0, 0>>
  ELSE IF c[1] > 100 \/ (c[1] = 100 /\ c[2] > 0) THEN <<100, 0>>
  ELSE c

(* _calculate_approval_confidence *)
ApprovalConfidence(obj) ==
  Clamp01(Float64Sum(TimeFactor(ExecutionTime(obj)), ComplexityFactor(obj.description)))

(* a score under the threshold goes to the manager *)
RoleForManager(score) == IF FloatGeq(score, auto_decision_threshold) THEN AUTO ELSE MANAGER

(* ApprovalRole.AUTO if confidence_score >= threshold else AGENT *)
RoleFor(score) == IF FloatGeq(score, auto_decision_threshold) THEN AUTO ELSE AGENT

(***************************************************************************)
(* Records                                                                 *)
(***************************************************************************)
(* a task spec of a batch; Missing stands for a dictionary without the key *)
WellFormed(spec) == spec.title # Missing /\ spec.description # MissingLength

(* the specs a creation loop gets through before task_data["title"] or     *)
(* task_data["description"] raises KeyError                                *)
RECURSIVE GoodPrefix(_)
GoodPrefix(batch) ==
  IF batch = <<>> THEN <<>>
  ELSE IF WellFormed(Head(batch)) THEN <<Head(batch)>> \o GoodPrefix(Tail(batch))
  ELSE <<>>

(* a request starts IN_PROGRESS *)
NewRequestInProgress(priority, due_date, task_ids, now) ==
  [priority |-> priority, due_date |-> due_date, created_at |-> now,
   status |-> IN_PROGRESS, tasks |-> task_ids, completed_at |-> NoTime]

NewRequest(priority, due_date, task_ids, now) ==
  [priority |-> priority, due_date |-> due_date, created_at |-> now,
   status |-> PENDING, tasks |-> task_ids, completed_at |-> NoTime]

NewTask(request_id, spec, priority, due_date, now) ==
  [request_id |-> request_id, title |-> spec.title, description |-> spec.description,
   priority |-> priority, due_date |-> due_date, created_at |-> now,
   status |-> PENDING, subtasks |-> <<>>,
   completed_at |-> NoTime, completed_details |-> None,
   failed_at |-> NoTime, failure_details |-> None,
   approved |-> FALSE, approved_at |-> NoTime,
   approval_role |-> None, confidence_score |-> NoScore]

NewSubtask(request_id, task_id, spec, priority, due_date, now) ==
  [request_id |-> request_id, task_id |-> task_id,
   title |-> spec.title, description |-> spec.description,
   priority |-> priority, due_date |-> due_date, created_at |-> now,
   status |-> PENDING,
   completed_at |-> NoTime, completed_details |-> None,
   failed_at |-> NoTime, failure_details |-> None,
   approved |-> FALSE, approved_at |-> NoTime,
   approval_role |-> None, confidence_score |-> NoScore]

NoMetrics == <<>>

(* what a call returned: the method, the "status" of the response (or the  *)
(* exception raised), the "requestId", "taskId" (for get_next_task: the id *)
(* of the task returned) and "subtaskId" of the response where it has      *)
(* them, and the workflow metrics approve_request_completion computed      *)
Ret(op, status, r, t, s) ==
  [op |-> op, status |-> status, req |-> r, task |-> t, sub |-> s, metrics |-> NoMetrics]

(* the call returned a response (it raised nothing) with this status *)
Returned(op, status) == ret.op = op /\ ret.status = status

(* ids first+1 .. first+n, in the order they are created *)
FreshIds(first, n) == [i \in 1..n |-> first + i]

(* d extended with the records made for the ids of `ids` *)
Extend(d, ids, Make(_)) ==
  [k \in DOMAIN d \cup Range(ids) |-> IF k \in DOMAIN d THEN d[k] ELSE Make(k)]

(* d without the keys of `gone` *)
Without(d, gone) == [k \in DOMAIN d \ gone |-> d[k]]

(***************************************************************************)
(* State after construction                                                *)
(***************************************************************************)
Init ==
  /\ requests = <<>>
  /\ tasks = <<>>
  /\ subtasks = <<>>
  /\ nextReq = 0
  /\ nextTask = 0
  /\ nextSub = 0
  /\ clock = 0
  /\ ret = Ret("init", None, NoId, NoId, NoId)
  /\ selected = {}
  /\ calls = <<>>

(* time passes between two calls *)
Tick(d) ==
  /\ clock' = clock + d
  /\ UNCHANGED <<requests, tasks, subtasks, nextReq, nextTask, nextSub, ret, selected,
                 calls>>

(***************************************************************************)
(* request_planning                                                        *)
(***************************************************************************)
RequestPlanning(batch, priority, due_date) ==
  LET made == GoodPrefix(batch)
      rid == nextReq + 1
      ids == FreshIds(nextTask, Len(made))
      Make(t) == NewTask(rid, made[t - nextTask], priority, due_date, clock)
      ok == Len(made) = Len(batch)
  IN /\ tasks' = Extend(tasks, ids, Make)
     /\ requests' = IF ok
                       THEN Extend(requests, <<rid>>,
                                   LAMBDA k : NewRequest(priority, due_date, ids, clock))
                       ELSE requests
     /\ nextReq' = rid
     /\ nextTask' = nextTask + Len(made)
     /\ ret' = IF ok THEN Ret("request_planning", "planned", rid, NoId, NoId)
                     ELSE Ret("request_planning", "KeyError", NoId, NoId, NoId)
     /\ UNCHANGED <<subtasks, nextSub, clock, calls, selected>>

(***************************************************************************)
(* get_next_task                                                           *)
(***************************************************************************)
(* one COMPLETED task is enough *)
SomeCompleted(r) ==
  \E i \in 1..Len(requests[r].tasks) : tasks[requests[r].tasks[i]].status = COMPLETED

(* all_completed: every owned task has status COMPLETED *)
AllCompleted(r) ==
  \A i \in 1..Len(requests[r].tasks) : tasks[requests[r].tasks[i]].status = COMPLETED

(* the FAILED tasks are collected as well, to be tried again *)
PendingOrFailedTasks(r) ==
  SelectSeq(requests[r].tasks, LAMBDA u : tasks[u].status \in {PENDING, FAILED})

(* the IN_PROGRESS tasks are collected as well *)
PendingOrInProgressTasks(r) ==
  SelectSeq(requests[r].tasks, LAMBDA u : tasks[u].status \in {PENDING, IN_PROGRESS})

(* pending_tasks, in the order of request["tasks"] *)
PendingTasks(r) == SelectIds(requests[r].tasks, tasks, PENDING)

InProgressTasks(r) == SelectIds(requests[r].tasks, tasks, IN_PROGRESS)

(* pending_tasks.sort(key=...); next_task = pending_tasks[0] *)
NextTaskOf(r) == Head(SortByKey(PendingTasks(r), tasks))

GetNextTask(r) ==
  /\ UNCHANGED <<requests, subtasks, nextReq, nextTask, nextSub, clock, calls>>
  /\ IF r \notin DOMAIN requests
       THEN /\ ret' = Ret("get_next_task", "not_found", NoId, NoId, NoId)
            /\ UNCHANGED <<tasks, selected>>
     ELSE IF AllCompleted(r)
       THEN /\ ret' = Ret("get_next_task", "all_tasks_done", NoId, NoId, NoId)
            /\ UNCHANGED <<tasks, selected>>
     ELSE IF PendingTasks(r) # <<>>
       THEN /\ tasks' = [tasks EXCEPT ![NextTaskOf(r)].status = IN_PROGRESS]
            /\ selected' = selected \cup {NextTaskOf(r)}
            /\ ret' = Ret("get_next_task", "next_task", NoId, NextTaskOf(r), NoId)
     ELSE IF InProgressTasks(r) # <<>>
       THEN /\ ret' = Ret("get_next_task", "tasks_in_progress", NoId, NoId, NoId)
            /\ UNCHANGED <<tasks, selected>>
     ELSE /\ ret' = Ret("get_next_task", "no_pending_tasks", NoId, NoId, NoId)
          /\ UNCHANGED <<tasks, selected>>

(***************************************************************************)
(* mark_task_done                                                          *)
(***************************************************************************)
(* a FAILED task may be marked again *)
AlreadyDoneUnlessFailed(task) == task.status \notin {IN_PROGRESS, PENDING, FAILED}

(* the guard of the main task case: the task is not IN_PROGRESS or PENDING *)
AlreadyDone(task) == task.status \notin {IN_PROGRESS, PENDING}

(* a record rewritten only while it is still open *)
MarkedUnlessTerminal(obj, status, completed_details) ==
  IF obj.status \in {COMPLETED, FAILED}
    THEN obj
    ELSE [obj EXCEPT !.status = status,
                     !.completed_at = clock,
                     !.completed_details = completed_details]

(* the three assignments of lines 212-214 (subtask) and 246-248 (task) *)
Marked(obj, status, completed_details) ==
  [obj EXCEPT !.status = status,
              !.completed_at = clock,
              !.completed_details = completed_details]

MarkTaskDone(r, t, s, status, completed_details) ==
  /\ UNCHANGED <<requests, nextReq, nextTask, nextSub, clock, calls, selected>>
  /\ IF r \notin DOMAIN requests \/ t \notin DOMAIN tasks
          \/ (s # NoId /\ s \notin DOMAIN subtasks)
       THEN /\ ret' = Ret("mark_task_done", "not_found", NoId, NoId, NoId)
            /\ UNCHANGED <<tasks, subtasks>>
     ELSE IF s # NoId
       THEN /\ subtasks' = [subtasks EXCEPT
                           ![s] = Marked(subtasks[s], status, completed_details)]
            /\ ret' = Ret("mark_task_done", "task_done", NoId, t, s)
            /\ UNCHANGED tasks
     ELSE IF AlreadyDone(tasks[t])
       THEN /\ ret' = Ret("mark_task_done", "already_done", NoId, NoId, NoId)
            /\ UNCHANGED <<tasks, subtasks>>
     ELSE /\ tasks' = [tasks EXCEPT ![t] = Marked(tasks[t], status, completed_details)]
          /\ ret' = Ret("mark_task_done", "task_done", NoId, t, s)
          /\ UNCHANGED subtasks

(***************************************************************************)
(* approve_task_completion                                                 *)
(***************************************************************************)
(* a FAILED target is approved as well *)
NotCompletedNorFailed(obj) == obj.status \notin {COMPLETED, FAILED}

(* the precondition of an approval: status != COMPLETED is refused *)
NotCompleted(obj) == obj.status # COMPLETED

(* the record with the approval written into it *)
Approved(obj) ==
  [obj EXCEPT !.approved = TRUE,
              !.approved_at = clock,
              !.approval_role = RoleFor(ApprovalConfidence(obj)),
              !.confidence_score = ApprovalConfidence(obj)]

(* one approved subtask is enough *)
SomeSubtaskApproved(task, S) ==
  /\ \E i \in 1..Len(task.subtasks) : S[task.subtasks[i]].approved
  /\ task.subtasks # <<>>

(* all_subtasks_approved and task["subtasks"], read in the dictionary S *)
AllSubtasksApproved(task, S) ==
  /\ \A i \in 1..Len(task.subtasks) : S[task.subtasks[i]].approved
  /\ task.subtasks # <<>>

ApproveTaskCompletion(r, t, s) ==
  /\ UNCHANGED <<requests, nextReq, nextTask, nextSub, clock, calls, selected>>
  /\ IF r \notin DOMAIN requests \/ t \notin DOMAIN tasks
          \/ (s # NoId /\ s \notin DOMAIN subtasks)
       THEN /\ ret' = Ret("approve_task_completion", "not_found", NoId, NoId, NoId)
            /\ UNCHANGED <<tasks, subtasks>>
     ELSE IF s # NoId
       THEN IF NotCompleted(subtasks[s])
              THEN /\ ret' = Ret("approve_task_completion", "not_completed", NoId, NoId, NoId)
                   /\ UNCHANGED <<tasks, subtasks>>
            ELSE /\ subtasks' = [subtasks EXCEPT ![s] = Approved(subtasks[s])]
                 /\ tasks' = IF AllSubtasksApproved(tasks[t], subtasks')
                                THEN [tasks EXCEPT ![t].status = COMPLETED,
                                                   ![t].completed_at = clock]
                                ELSE tasks
                 /\ ret' = Ret("approve_task_completion", "approved", NoId, t, s)
     ELSE IF NotCompleted(tasks[t])
       THEN /\ ret' = Ret("approve_task_completion", "not_completed", NoId, NoId, NoId)
            /\ UNCHANGED <<tasks, subtasks>>
     ELSE /\ tasks' = [tasks EXCEPT ![t] = Approved(tasks[t])]
          /\ ret' = Ret("approve_task_completion", "approved", NoId, t, s)
          /\ UNCHANGED subtasks

(***************************************************************************)
(* approve_request_completion                                              *)
(***************************************************************************)
(* the status of the tasks is not looked at *)
AllApprovedOnly(r) ==
  \A i \in 1..Len(requests[r].tasks) : tasks[requests[r].tasks[i]].approved

(* the approval of the tasks is not looked at *)
AllCompletedOnly(r) ==
  \A i \in 1..Len(requests[r].tasks) : tasks[requests[r].tasks[i]].status = COMPLETED

(* all_completed_and_approved *)
AllCompletedAndApproved(r) ==
  \A i \in 1..Len(requests[r].tasks) :
    LET task == tasks[requests[r].tasks[i]]
    IN ~(task.status # COMPLETED \/ ~task.approved)

RECURSIVE SumSeq(_)
SumSeq(s) == IF s = <<>> THEN 0 ELSE Head(s) + SumSeq(Tail(s))

(* the positive execution times of the tasks of ids, in order *)
RECURSIVE TaskTimes(_, _)
TaskTimes(ids, T) ==
  IF ids = <<>> THEN <<>>
  ELSE IF ExecutionTime(T[Head(ids)]) > 0
    THEN <<ExecutionTime(T[Head(ids)])>> \o TaskTimes(Tail(ids), T)
  ELSE TaskTimes(Tail(ids), T)

(* n / d whatever d is *)
RateOfUnguarded(n, d) == <<n, d>>

(* n / d if d > 0 else 0, as the fraction <<numerator, denominator>> *)
RateOf(n, d) == IF d > 0 THEN <<n, d>> ELSE <<0, 1>>

(* _calculate_workflow_metrics(request), request being the record req *)
WorkflowMetrics(req, T) ==
  LET ids == req.tasks
      task_count == Len(ids)
      auto_approved_count == Cardinality({i \in 1..Len(ids) : T[ids[i]].approval_role = AUTO})
      error_count == Cardinality({i \in 1..Len(ids) : T[ids[i]].status = FAILED})
      task_times == TaskTimes(ids, T)
      error_rate == RateOf(error_count, task_count)
  IN [total_execution_time |-> req.completed_at - req.created_at,
      task_count |-> task_count,
      auto_approval_rate |-> RateOf(auto_approved_count, task_count),
      error_rate |-> error_rate,
      avg_task_time |-> RateOf(SumSeq(task_times), Len(task_times)),
      success_rate |-> <<error_rate[2] - error_rate[1], error_rate[2]>>]

ApproveRequestCompletion(r) ==
  /\ UNCHANGED <<tasks, subtasks, nextReq, nextTask, nextSub, clock, calls, selected>>
  /\ IF r \notin DOMAIN requests
       THEN /\ ret' = Ret("approve_request_completion", "not_found", NoId, NoId, NoId)
            /\ UNCHANGED requests
     ELSE IF ~AllCompletedAndApproved(r)
       THEN /\ ret' = Ret("approve_request_completion", "incomplete", NoId, NoId, NoId)
            /\ UNCHANGED requests
     ELSE /\ requests' = [requests EXCEPT ![r].status = COMPLETED,
                                           ![r].completed_at = clock]
          /\ ret' = [Ret("approve_request_completion", "completed", r, NoId, NoId)
                       EXCEPT !.metrics = WorkflowMetrics(requests'[r], tasks)]

(***************************************************************************)
(* open_task_details                                                       *)
(***************************************************************************)
(* the task is not looked up *)
OpenTaskDetailsUnchecked(t) ==
  /\ ret' = Ret("open_task_details", "details", NoId, NoId, NoId)
  /\ UNCHANGED <<requests, tasks, subtasks, nextReq, nextTask, nextSub, clock, calls,
                 selected>>

OpenTaskDetails(t) ==
  /\ ret' = IF t \notin DOMAIN tasks
              THEN Ret("open_task_details", "not_found", NoId, NoId, NoId)
              ELSE Ret("open_task_details", "details", NoId, NoId, NoId)
  /\ UNCHANGED <<requests, tasks, subtasks, nextReq, nextTask, nextSub, clock, calls,
                 selected>>

(***************************************************************************)
(* add_tasks_to_request                                                    *)
(***************************************************************************)
(* an empty priority is replaced as well *)
PriorityOrWhenEmpty(priority, inherited) ==
  IF priority \in {None, ""} THEN inherited ELSE priority

(* "if priority is None: priority = request["priority"]" (task["priority"] *)
(* in create_subtasks, lines 682-683)                                      *)
PriorityOr(priority, inherited) == IF priority = None THEN inherited ELSE priority

AddTasksToRequest(r, batch, priority, due_date) ==
  /\ UNCHANGED <<subtasks, nextReq, nextSub, clock, calls, selected>>
  /\ IF r \notin DOMAIN requests
       THEN /\ ret' = Ret("add_tasks_to_request", "not_found", NoId, NoId, NoId)
            /\ UNCHANGED <<requests, tasks, nextTask>>
     ELSE LET prio == PriorityOr(priority, requests[r].priority)
              due == IF due_date = NoDue THEN requests[r].due_date ELSE due_date
              made == GoodPrefix(batch)
              ids == FreshIds(nextTask, Len(made))
              Make(t) == NewTask(r, made[t - nextTask], prio, due, clock)
          IN /\ tasks' = Extend(tasks, ids, Make)
             /\ requests' = [requests EXCEPT ![r].tasks = @ \o ids]
             /\ nextTask' = nextTask + Len(made)
             /\ ret' = IF Len(made) = Len(batch)
                         THEN Ret("add_tasks_to_request", "tasks_added", r, NoId, NoId)
                         ELSE Ret("add_tasks_to_request", "KeyError", NoId, NoId, NoId)

(***************************************************************************)
(* update_task                                                             *)
(***************************************************************************)
(* only COMPLETED is refused *)
TerminalOnlyCompleted(obj) == obj.status = COMPLETED

(* status in [COMPLETED, FAILED]: the guard of update_task and delete_task *)
Terminal(obj) == obj.status \in {COMPLETED, FAILED}

(* every argument that is not None is written, an empty one too *)
UpdatedWhenNotNone(obj, title, description, priority, due_date) ==
  [obj EXCEPT !.title = IF title # None THEN title ELSE @,
              !.description = IF description # 0 THEN description ELSE @,
              !.priority = IF priority # None THEN priority ELSE @,
              !.due_date = IF due_date # NoDue THEN due_date ELSE @]

(* "if title: ...", and so on: None, "" and the empty text change nothing *)
Updated(obj, title, description, priority, due_date) ==
  [obj EXCEPT !.title = IF title \notin {None, ""} THEN title ELSE @,
              !.description = IF description # 0 THEN description ELSE @,
              !.priority = IF priority \notin {None, ""} THEN priority ELSE @,
              !.due_date = IF due_date # NoDue THEN due_date ELSE @]

UpdateTask(r, t, s, title, description, priority, due_date) ==
  /\ UNCHANGED <<requests, nextReq, nextTask, nextSub, clock, calls, selected>>
  /\ IF r \notin DOMAIN requests \/ t \notin DOMAIN tasks
          \/ (s # NoId /\ s \notin DOMAIN subtasks)
       THEN /\ ret' = Ret("update_task", "not_found", NoId, NoId, NoId)
            /\ UNCHANGED <<tasks, subtasks>>
     ELSE IF s # NoId
       THEN IF Terminal(subtasks[s])
              THEN /\ ret' = Ret("update_task", "cannot_update", NoId, NoId, NoId)
                   /\ UNCHANGED <<tasks, subtasks>>
            ELSE /\ subtasks' = [subtasks EXCEPT
                                    ![s] = Updated(@, title, description, priority, due_date)]
                 /\ ret' = Ret("update_task", "updated", NoId, t, s)
                 /\ UNCHANGED tasks
     ELSE IF Terminal(tasks[t])
       THEN /\ ret' = Ret("update_task", "cannot_update", NoId, NoId, NoId)
            /\ UNCHANGED <<tasks, subtasks>>
     ELSE /\ tasks' = [tasks EXCEPT ![t] = Updated(@, title, description, priority, due_date)]
          /\ ret' = Ret("update_task", "updated", NoId, t, s)
          /\ UNCHANGED subtasks

(***************************************************************************)
(* delete_task                                                             *)
(***************************************************************************)
(* only the subtasks that could be deleted one by one are removed *)
CascadeOpenOnly(task) ==
  {x \in Range(task.subtasks) : subtasks[x].status \notin {COMPLETED, FAILED}}

(* the subtasks removed with their task: every id of task["subtasks"] *)
Cascade(task) == Range(task.subtasks)

DeleteTask(r, t, s) ==
  /\ UNCHANGED <<nextReq, nextTask, nextSub, clock, calls, selected>>
  /\ IF r \notin DOMAIN requests \/ t \notin DOMAIN tasks
          \/ (s # NoId /\ s \notin DOMAIN subtasks)
       THEN /\ ret' = Ret("delete_task", "not_found", NoId, NoId, NoId)
            /\ UNCHANGED <<requests, tasks, subtasks>>
     ELSE IF s # NoId
       THEN IF Terminal(subtasks[s])
              THEN /\ ret' = Ret("delete_task", "cannot_delete", NoId, NoId, NoId)
                   /\ UNCHANGED <<requests, tasks, subtasks>>
            ELSE IF s \notin Range(tasks[t].subtasks)
              (* task["subtasks"].remove(subtask_id) raises ValueError *)
              THEN /\ ret' = Ret("delete_task", "ValueError", NoId, NoId, NoId)
                   /\ UNCHANGED <<requests, tasks, subtasks>>
            ELSE /\ tasks' = [tasks EXCEPT ![t].subtasks = Remove(@, s)]
                 /\ subtasks' = Without(subtasks, {s})
                 /\ ret' = Ret("delete_task", "deleted", NoId, t, s)
                 /\ UNCHANGED requests
     ELSE IF Terminal(tasks[t])
       THEN /\ ret' = Ret("delete_task", "cannot_delete", NoId, NoId, NoId)
            /\ UNCHANGED <<requests, tasks, subtasks>>
     ELSE IF t \notin Range(requests[r].tasks)
       (* request["tasks"].remove(task_id) raises ValueError *)
       THEN /\ ret' = Ret("delete_task", "ValueError", NoId, NoId, NoId)
            /\ UNCHANGED <<requests, tasks, subtasks>>
     ELSE /\ requests' = [requests EXCEPT ![r].tasks = Remove(@, t)]
          /\ tasks' = Without(tasks, {t})
          /\ subtasks' = Without(subtasks, Cascade(tasks[t]))
          /\ ret' = Ret("delete_task", "deleted", NoId, t, s)

(***************************************************************************)
(* create_subtasks                                                         *)
(***************************************************************************)
CreateSubtasks(r, t, batch, priority, due_date) ==
  /\ UNCHANGED <<requests, nextReq, nextTask, clock, calls, selected>>
  /\ IF r \notin DOMAIN requests \/ t \notin DOMAIN tasks
       THEN /\ ret' = Ret("create_subtasks", "not_found", NoId, NoId, NoId)
            /\ UNCHANGED <<tasks, subtasks, nextSub>>
     ELSE LET prio == PriorityOr(priority, tasks[t].priority)
              due == IF due_date = NoDue THEN tasks[t].due_date ELSE due_date
              made == GoodPrefix(batch)
              ids == FreshIds(nextSub, Len(made))
              Make(k) == NewSubtask(r, t, made[k - nextSub], prio, due, clock)
          IN /\ subtasks' = Extend(subtasks, ids, Make)
             /\ tasks' = [tasks EXCEPT ![t].subtasks = @ \o ids]
             /\ nextSub' = nextSub + Len(made)
             /\ ret' = IF Len(made) = Len(batch)
                         THEN Ret("create_subtasks", "subtasks_created", NoId, t, NoId)
                         ELSE Ret("create_subtasks", "KeyError", NoId, NoId, NoId)

(***************************************************************************)
(* notify_task_event                                                       *)
(***************************************************************************)
(* a COMPLETED or FAILED record is left alone *)
NotifiedUnlessTerminal(obj, event, completed_details) ==
  IF obj.status \in {COMPLETED, FAILED} THEN obj
  ELSE IF event = COMPLETED
    THEN [obj EXCEPT !.status = COMPLETED,
                     !.completed_at = clock,
                     !.completed_details = completed_details]
  ELSE [obj EXCEPT !.status = FAILED,
                   !.failed_at = clock,
                   !.failure_details = completed_details]

(* the record after the event: COMPLETED or FAILED *)
Notified(obj, event, completed_details) ==
  IF event = COMPLETED
    THEN [obj EXCEPT !.status = COMPLETED,
                     !.completed_at = clock,
                     !.completed_details = completed_details]
  ELSE IF event = FAILED
    THEN [obj EXCEPT !.status = FAILED,
                     !.failed_at = clock,
                     !.failure_details = completed_details]
  ELSE obj

NotifyTaskEvent(r, t, event, s, completed_details) ==
  /\ UNCHANGED <<requests, nextReq, nextTask, nextSub, clock, calls, selected>>
  /\ IF r \notin DOMAIN requests \/ t \notin DOMAIN tasks
       THEN /\ ret' = Ret("notify_task_event", "not_found", NoId, NoId, NoId)
            /\ UNCHANGED <<tasks, subtasks>>
     ELSE IF event \notin Event
       THEN /\ ret' = Ret("notify_task_event", "invalid_event", NoId, NoId, NoId)
            /\ UNCHANGED <<tasks, subtasks>>
     ELSE IF s # NoId /\ s \notin DOMAIN subtasks
       THEN /\ ret' = Ret("notify_task_event", "not_found", NoId, NoId, NoId)
            /\ UNCHANGED <<tasks, subtasks>>
     ELSE IF s # NoId
       THEN /\ subtasks' = [subtasks EXCEPT ![s] = Notified(@, event, completed_details)]
            /\ ret' = Ret("notify_task_event", "event_processed", NoId, t, s)
            /\ UNCHANGED tasks
     ELSE /\ tasks' = [tasks EXCEPT ![t] = Notified(@, event, completed_details)]
          /\ ret' = Ret("notify_task_event", "event_processed", NoId, t, s)
          /\ UNCHANGED subtasks

(***************************************************************************)
(* get_next_task called from several threads.  The method takes no lock,   *)
(* so a thread can be suspended between any two statements; the two that   *)
(* matter are the reads that choose next_task (the lookup of the request,  *)
(* the all_completed test, the collection and the sort of pending_tasks)   *)
(* and the write next_task["status"] = IN_PROGRESS with the return.        *)
(* calls[th] is the call of thread th: the task it chose and whether it    *)
(* has returned.  No task is deleted while a call is in flight.            *)
(***************************************************************************)
Threads == 1..MaxThreads

Idle(th) == IF th \in DOMAIN calls THEN calls[th].pc = "returned" ELSE TRUE

GetNextTaskCollect(th, r) ==
  /\ Idle(th)
  /\ r \in DOMAIN requests
  /\ ~AllCompleted(r)
  /\ PendingTasks(r) # <<>>
  /\ calls' = [k \in DOMAIN calls \cup {th} |->
                 IF k = th THEN [task |-> NextTaskOf(r), pc |-> "collected"]
                 ELSE calls[k]]
  /\ UNCHANGED <<requests, tasks, subtasks, nextReq, nextTask, nextSub, clock, ret,
                 selected>>

GetNextTaskWrite(th) ==
  /\ th \in DOMAIN calls
  /\ calls[th].pc = "collected"
  /\ tasks' = [tasks EXCEPT ![calls[th].task].status = IN_PROGRESS]
  /\ selected' = selected \cup {calls[th].task}
  /\ ret' = Ret("get_next_task", "next_task", NoId, calls[th].task, NoId)
  /\ calls' = [calls EXCEPT ![th].pc = "returned"]
  /\ UNCHANGED <<requests, subtasks, nextReq, nextTask, nextSub, clock>>

(***************************************************************************)
(* The metrics / artifact sink.  Every mutating method calls               *)
(* self.mlflow_manager inside "with self.mlflow_manager.start_run(...)";   *)
(* no call is wrapped in try / except, so an exception of the sink leaves  *)
(* the method at the sink call: the statements before it have run, the     *)
(* statements after it have not, and the caller gets the exception.        *)
(***************************************************************************)
(* what a call of the sink can do *)
SinkOutcomes == {"ok", "raised"}

(* the exception of the sink, as recorded in ret *)
SinkError == "SinkError"

(* request_planning, the sink raising at lines 88-101 *)
RequestPlanningSinkRaised(batch, priority, due_date) ==
  LET rid == nextReq + 1
      ids == FreshIds(nextTask, Len(batch))
      Make(t) == NewTask(rid, batch[t - nextTask], priority, due_date, clock)
  IN /\ "raised" \in SinkOutcomes
     /\ GoodPrefix(batch) = batch
     /\ tasks' = Extend(tasks, ids, Make)
     /\ requests' = Extend(requests, <<rid>>,
                           LAMBDA k : NewRequest(priority, due_date, ids, clock))
     /\ nextReq' = rid
     /\ nextTask' = nextTask + Len(batch)
     /\ ret' = Ret("request_planning", SinkError, NoId, NoId, NoId)
     /\ UNCHANGED <<subtasks, nextSub, clock, calls, selected>>

(* mark_task_done, the sink raising at lines 217-230 or 251-264 *)
MarkTaskDoneSinkRaised(r, t, s, status, completed_details) ==
  /\ "raised" \in SinkOutcomes
  /\ r \in DOMAIN requests
  /\ t \in DOMAIN tasks
  /\ s # NoId => s \in DOMAIN subtasks
  /\ s = NoId => ~AlreadyDone(tasks[t])
  /\ IF s # NoId
       THEN /\ subtasks' = [subtasks EXCEPT
                           ![s] = Marked(subtasks[s], status, completed_details)]
            /\ UNCHANGED tasks
     ELSE /\ tasks' = [tasks EXCEPT ![t] = Marked(tasks[t], status, completed_details)]
          /\ UNCHANGED subtasks
  /\ ret' = Ret("mark_task_done", SinkError, NoId, NoId, NoId)
  /\ UNCHANGED <<requests, nextReq, nextTask, nextSub, clock, calls, selected>>

(* approve_task_completion, the sink raising at lines 308-313 (before the  *)
(* check "if all subtasks are approved for this task") or 354-359          *)
ApproveTaskCompletionSinkRaised(r, t, s) ==
  /\ "raised" \in SinkOutcomes
  /\ r \in DOMAIN requests
  /\ t \in DOMAIN tasks
  /\ s # NoId => s \in DOMAIN subtasks
  /\ IF s # NoId
       THEN /\ ~NotCompleted(subtasks[s])
            /\ subtasks' = [subtasks EXCEPT ![s] = Approved(subtasks[s])]
            /\ UNCHANGED tasks
     ELSE /\ ~NotCompleted(tasks[t])
          /\ tasks' = [tasks EXCEPT ![t] = Approved(tasks[t])]
          /\ UNCHANGED subtasks
  /\ ret' = Ret("approve_task_completion", SinkError, NoId, NoId, NoId)
  /\ UNCHANGED <<requests, nextReq, nextTask, nextSub, clock, calls, selected>>

(***************************************************************************)
(* The callers.  A profile P names the arguments the caller draws from and *)
(* the bounds of the run; every behaviour is a sequence of calls of the    *)
(* public methods, one at a time (the tracker has no concurrency).         *)
(***************************************************************************)
Batches(specs, n) == UNION {[1..k -> specs] : k \in 0..n}

NextFor(P) ==
  \/ \E batch \in Batches(P.specs, P.maxBatch), priority \in P.priorities, due \in P.dues :
       /\ nextReq < P.maxReq
       /\ nextTask + Len(batch) <= P.maxTask
       /\ RequestPlanning(batch, priority, due)
  \/ \E r \in P.reqIds : GetNextTask(r)
  \/ \E r \in P.reqIds, t \in P.taskIds, s \in P.subIds,
         status \in P.statuses, details \in P.details :
       MarkTaskDone(r, t, s, status, details)
  \/ \E r \in P.reqIds, t \in P.taskIds, s \in P.subIds : ApproveTaskCompletion(r, t, s)
  \/ \E r \in P.reqIds : ApproveRequestCompletion(r)
  \/ \E t \in P.taskIds : OpenTaskDetails(t)
  \/ \E r \in P.reqIds, batch \in Batches(P.specs, P.maxBatch),
         priority \in P.addPriorities, due \in P.addDues :
       /\ nextTask + Len(batch) <= P.maxTask
       /\ AddTasksToRequest(r, batch, priority, due)
  \/ \E r \in P.reqIds, t \in P.taskIds, s \in P.subIds, title \in P.newTitles,
         description \in P.newDescriptions, priority \in P.newPriorities,
         due \in P.newDues :
       UpdateTask(r, t, s, title, description, priority, due)
  \/ \E r \in P.reqIds, t \in P.taskIds, s \in P.subIds : DeleteTask(r, t, s)
  \/ \E r \in P.reqIds, t \in P.taskIds, batch \in Batches(P.specs, P.maxBatch),
         priority \in P.addPriorities, due \in P.addDues :
       /\ nextSub + Len(batch) <= P.maxSub
       /\ CreateSubtasks(r, t, batch, priority, due)
  \/ \E r \in P.reqIds, t \in P.taskIds, s \in P.subIds,
         event \in P.events, details \in P.details :
       NotifyTaskEvent(r, t, event, s, details)

(* Task lifecycle: one request and its tasks (no subtasks) through every   *)
(* operation, with every status mark_task_done accepts.                    *)
Lifecycle ==
  [maxReq |-> MaxRequests, maxTask |-> MaxTasks, maxSub |-> 0, maxBatch |-> MaxBatch,
   reqIds |-> 1..MaxRequests, taskIds |-> 1..MaxTasks, subIds |-> {NoId},
   specs |-> {[title |-> "T1", description |-> 2]},
   priorities |-> {HIGH}, dues |-> {NoDue},
   addPriorities |-> {None}, addDues |-> {NoDue},
   statuses |-> Status, events |-> Event \cup {"CANCELLED"}, details |-> {"D"},
   newTitles |-> {None, "T2"}, newDescriptions |-> {0}, newPriorities |-> {None},
   newDues |-> {NoDue}]

Next == NextFor(Lifecycle)

Spec == Init /\ [][Next]_vars

(* Subtask lifecycle: one task and its subtasks through every operation.   *)
Nested ==
  [maxReq |-> 1, maxTask |-> 1, maxSub |-> MaxSubtasks, maxBatch |-> MaxBatch,
   reqIds |-> {1}, taskIds |-> {1}, subIds |-> 0..MaxSubtasks,
   specs |-> {[title |-> "T1", description |-> 2]},
   priorities |-> {HIGH}, dues |-> {NoDue},
   addPriorities |-> {None}, addDues |-> {NoDue},
   statuses |-> {COMPLETED, FAILED}, events |-> {COMPLETED, "CANCELLED"},
   details |-> {"D"},
   newTitles |-> {"T2"}, newDescriptions |-> {0}, newPriorities |-> {None},
   newDues |-> {NoDue}]

NextNested == NextFor(Nested)

SpecNested == Init /\ [][NextNested]_vars

(* One task while time passes between the calls.                           *)
Timed ==
  [maxReq |-> 1, maxTask |-> 1, maxSub |-> 0, maxBatch |-> 1,
   reqIds |-> {1}, taskIds |-> {1}, subIds |-> {NoId},
   specs |-> {[title |-> "T1", description |-> 2]},
   priorities |-> {HIGH}, dues |-> {NoDue},
   addPriorities |-> {None}, addDues |-> {NoDue},
   statuses |-> Status, events |-> Event \cup {"CANCELLED"}, details |-> {None, "D"},
   newTitles |-> {None}, newDescriptions |-> {0}, newPriorities |-> {None},
   newDues |-> {NoDue}]

TickSeconds == 400

NextTimed ==
  \/ NextFor(Timed)
  \/ clock + TickSeconds <= TickSeconds * MaxTicks /\ Tick(TickSeconds)

SpecTimed == Init /\ [][NextTimed]_vars

(* Scheduling: the tasks of one request created and updated with the      *)
(* given priorities and due dates, selected by get_next_task, and deleted. *)
OneSpec == <<[title |-> "T1", description |-> 2]>>

NextSchedFor(priorities, dues, newPriority, newDue) ==
  \/ \E priority \in priorities, due \in dues :
       /\ nextReq < 1
       /\ nextTask < MaxSchedTasks
       /\ RequestPlanning(OneSpec, priority, due)
  \/ \E priority \in priorities \cup {None}, due \in dues :
       /\ nextTask < MaxSchedTasks
       /\ AddTasksToRequest(1, OneSpec, priority, due)
  \/ \E t \in 1..MaxSchedTasks, priority \in {None, newPriority}, due \in {NoDue, newDue} :
       UpdateTask(1, t, NoId, None, 0, priority, due)
  \/ GetNextTask(1)
  \/ \E t \in 1..MaxSchedTasks : DeleteTask(1, t, NoId)

(* every priority, with and without a due date *)
NextSched == NextSchedFor({HIGH, MEDIUM, LOW, "URGENT"}, {NoDue, Date_2024_01_01},
                          HIGH, Date_2024_01_01)

SpecSched == Init /\ [][NextSched]_vars

(* every due date, under two priorities *)
NextDue == NextSchedFor({HIGH, LOW},
                        {NoDue, Date_2024_01_01, Date_2024_06_30, Date_9999_12_31},
                        HIGH, Date_2024_01_01)

SpecDue == Init /\ [][NextDue]_vars

(* Ownership: the tasks of a request and their subtasks created, marked    *)
(* done and deleted.                                                       *)
OwnedSpecs == {[title |-> "T1", description |-> 2]}

NextOwned ==
  \/ \E batch \in Batches(OwnedSpecs, MaxOwnedTasks) :
       /\ nextReq < MaxOwnedRequests
       /\ nextTask + Len(batch) <= MaxOwnedTasks
       /\ RequestPlanning(batch, HIGH, NoDue)
  \/ \E r \in 1..MaxOwnedRequests, t \in 1..MaxOwnedTasks, batch \in Batches(OwnedSpecs, 2) :
       /\ nextSub + Len(batch) <= MaxOwnedSubtasks
       /\ CreateSubtasks(r, t, batch, None, NoDue)
  \/ \E r \in 1..MaxOwnedRequests, t \in 1..MaxOwnedTasks, s \in 0..MaxOwnedSubtasks :
       MarkTaskDone(r, t, s, COMPLETED, "D")
  \/ \E r \in 1..MaxOwnedRequests, t \in 1..MaxOwnedTasks : DeleteTask(r, t, NoId)

SpecOwned == Init /\ [][NextOwned]_vars

(* Scoring: one task and one subtask with descriptions and execution times *)
(* on both sides of every threshold of the confidence formula.             *)
ScoreDescriptions == {0, 49, 50, 1000, 1001}

ScoreTimes == {29, 30, 300, 301}

NextScore ==
  \/ \E description \in ScoreDescriptions :
       /\ nextReq < 1
       /\ RequestPlanning(<<[title |-> "T1", description |-> description]>>, HIGH, NoDue)
  \/ \E description \in ScoreDescriptions :
       /\ nextSub < 1
       /\ CreateSubtasks(1, 1, <<[title |-> "T1", description |-> description]>>, None, NoDue)
  \/ \E d \in ScoreTimes : clock = 0 /\ Tick(d)
  \/ \E s \in 0..1 : MarkTaskDone(1, 1, s, COMPLETED, "D")
  \/ \E s \in 0..1 : ApproveTaskCompletion(1, 1, s)

SpecScore == Init /\ [][NextScore]_vars

(* Statuses: the tasks of one request with every status a caller can give  *)
(* them; mark_task_done stores the string it is passed.                    *)
MaxStatusTasks == 2

NextStatus ==
  \/ \E batch \in Batches(OwnedSpecs, MaxStatusTasks) :
       /\ nextReq < 1
       /\ RequestPlanning(batch, HIGH, NoDue)
  \/ GetNextTask(1)
  \/ \E t \in 1..MaxStatusTasks, status \in Status \cup {"BLOCKED"} :
       MarkTaskDone(1, t, NoId, status, "D")
  \/ \E t \in 1..MaxStatusTasks, event \in Event : NotifyTaskEvent(1, t, event, NoId, "D")
  \/ \E t \in 1..MaxStatusTasks : DeleteTask(1, t, NoId)

SpecStatus == Init /\ [][NextStatus]_vars

(* Events: one task and one subtask, selected, marked done, approved and   *)
(* notified of every event, at two moments.                                *)
NextEvents ==
  \/ nextReq < 1 /\ RequestPlanning(OneSpec, HIGH, NoDue)
  \/ nextSub < 1 /\ CreateSubtasks(1, 1, OneSpec, None, NoDue)
  \/ clock = 0 /\ Tick(TickSeconds)
  \/ GetNextTask(1)
  \/ \E s \in 0..1 : MarkTaskDone(1, 1, s, COMPLETED, "D")
  \/ \E s \in 0..1 : ApproveTaskCompletion(1, 1, s)
  \/ \E s \in 0..1, event \in Event \cup {"CANCELLED"}, details \in {"E"} :
       NotifyTaskEvent(1, 1, event, s, details)

SpecEvents == Init /\ [][NextEvents]_vars

(* Lookups: every operation called with ids that exist and ids that do not *)
(* (a second request id and a second task id are never created).           *)
Ids ==
  [maxReq |-> 1, maxTask |-> 1, maxSub |-> 1, maxBatch |-> 1,
   reqIds |-> 1..2, taskIds |-> 1..2, subIds |-> 0..2,
   specs |-> {[title |-> "T1", description |-> 2]},
   priorities |-> {HIGH}, dues |-> {NoDue},
   addPriorities |-> {None}, addDues |-> {NoDue},
   statuses |-> {COMPLETED}, events |-> {COMPLETED, "CANCELLED"},
   details |-> {"D"},
   newTitles |-> {"T2"}, newDescriptions |-> {0}, newPriorities |-> {None},
   newDues |-> {NoDue}]

NextIds == NextFor(Ids)

SpecIds == Init /\ [][NextIds]_vars

(* Malformed batches: tasks and subtasks created from batches in which a   *)
(* spec may lack its title or its description.                             *)
MaxMalformedTasks == 3

MaxMalformedSubtasks == 2

MalformedSpecs ==
  {[title |-> "T1", description |-> 2],
   [title |-> Missing, description |-> 2],
   [title |-> "T1", description |-> MissingLength]}

NextMalformed ==
  \/ \E batch \in Batches(MalformedSpecs, 2) :
       /\ nextReq < 2
       /\ nextTask + Len(batch) <= MaxMalformedTasks
       /\ RequestPlanning(batch, HIGH, NoDue)
  \/ \E r \in 1..2, batch \in Batches(MalformedSpecs, 2) :
       /\ nextTask + Len(batch) <= MaxMalformedTasks
       /\ AddTasksToRequest(r, batch, None, NoDue)
  \/ \E r \in 1..2, t \in 1..MaxMalformedTasks, batch \in Batches(MalformedSpecs, 2) :
       /\ nextSub + Len(batch) <= MaxMalformedSubtasks
       /\ CreateSubtasks(r, t, batch, None, NoDue)
  \/ \E r \in 1..2, t \in 1..MaxMalformedTasks, s \in 0..MaxMalformedSubtasks :
       DeleteTask(r, t, s)

SpecMalformed == Init /\ [][NextMalformed]_vars

(* Threads: the tasks of one request selected by calls of get_next_task    *)
(* that run as a whole and by calls of two threads that can be suspended   *)
(* before their write, and marked done or marked PENDING again.            *)
NextConcurrent ==
  \/ \E batch \in Batches(OwnedSpecs, MaxConcurrentTasks) :
       /\ nextReq < 1
       /\ RequestPlanning(batch, HIGH, NoDue)
  \/ GetNextTask(1)
  \/ \E th \in Threads : GetNextTaskCollect(th, 1)
  \/ \E th \in Threads : GetNextTaskWrite(th)
  \/ \E t \in 1..MaxConcurrentTasks, st \in {COMPLETED, PENDING} :
       MarkTaskDone(1, t, NoId, st, "D")

SpecConcurrent == Init /\ [][NextConcurrent]_vars

(* Sink: one task and its subtasks planned, marked and approved, with a    *)
(* sink that works or raises.                                              *)
SinkSubIds == {NoId} \cup 1..MaxSinkSubtasks

NextSink ==
  \/ \E batch \in Batches(OwnedSpecs, 1) :
       /\ nextReq < 1
       /\ RequestPlanning(batch, HIGH, NoDue)
  \/ \E batch \in Batches(OwnedSpecs, 1) :
       /\ nextReq < 1
       /\ RequestPlanningSinkRaised(batch, HIGH, NoDue)
  \/ \E batch \in Batches(OwnedSpecs, MaxSinkSubtasks) :
       /\ nextSub + Len(batch) <= MaxSinkSubtasks
       /\ CreateSubtasks(1, 1, batch, None, NoDue)
  \/ \E s \in SinkSubIds, status \in {COMPLETED, FAILED} :
       MarkTaskDone(1, 1, s, status, "D")
  \/ \E s \in SinkSubIds, status \in {COMPLETED, FAILED} :
       MarkTaskDoneSinkRaised(1, 1, s, status, "D")
  \/ \E s \in SinkSubIds : ApproveTaskCompletion(1, 1, s)
  \/ \E s \in SinkSubIds : ApproveTaskCompletionSinkRaised(1, 1, s)
  \/ ApproveRequestCompletion(1)

SpecSink == Init /\ [][NextSink]_vars

(* Worker: the control flow of the caller on one request.  It plans the    *)
(* request, then repeats get_next_task, mark_task_done (COMPLETED) and     *)
(* approve_task_completion on the task returned, and calls                 *)
(* approve_request_completion when get_next_task reports all_tasks_done.   *)
(* Each call runs to its end and is followed by the next one, so the       *)
(* worker's position is the result of its last call.                       *)
WorkerSpecs == {[title |-> "T1", description |-> 2], [title |-> "T2", description |-> 60]}

WorkerPlans ==
  /\ ret.op = "init"
  /\ \E batch \in Batches(WorkerSpecs, MaxWorkerTasks), priority \in {HIGH, LOW},
        due \in {NoDue, Date_2024_01_01} :
       RequestPlanning(batch, priority, due)

WorkerSelects ==
  /\ Returned("request_planning", "planned") \/ Returned("approve_task_completion", "approved")
  /\ GetNextTask(1)

WorkerMarks ==
  /\ Returned("get_next_task", "next_task")
  /\ MarkTaskDone(1, ret.task, NoId, COMPLETED, "D")

WorkerApproves ==
  /\ Returned("mark_task_done", "task_done")
  /\ ApproveTaskCompletion(1, ret.task, NoId)

WorkerCloses ==
  /\ Returned("get_next_task", "all_tasks_done")
  /\ ApproveRequestCompletion(1)

NextWorker ==
  \/ WorkerPlans
  \/ WorkerSelects
  \/ WorkerMarks
  \/ WorkerApproves
  \/ WorkerCloses

SpecWorker == Init /\ [][NextWorker]_vars

(* Finalization: a request of up to two tasks, the first of which can have *)
(* a subtask, before and after approve_request_completion has completed    *)
(* it.                                                                     *)
FinalSubIds == 0..MaxFinalSubtasks

NextFinal ==
  \/ /\ nextReq < 1
     /\ RequestPlanning(OneSpec, HIGH, NoDue)
  \/ /\ nextTask < MaxFinalTasks
     /\ AddTasksToRequest(1, OneSpec, None, NoDue)
  \/ /\ nextSub < MaxFinalSubtasks
     /\ CreateSubtasks(1, 1, OneSpec, None, NoDue)
  \/ \E t \in 1..MaxFinalTasks, s \in FinalSubIds : MarkTaskDone(1, t, s, COMPLETED, "D")
  \/ \E t \in 1..MaxFinalTasks, s \in FinalSubIds : ApproveTaskCompletion(1, t, s)
  \/ ApproveRequestCompletion(1)
  \/ \E t \in 1..MaxFinalTasks, s \in FinalSubIds, event \in Event :
       NotifyTaskEvent(1, t, event, s, "D")
  \/ \E t \in 1..MaxFinalTasks, s \in FinalSubIds : DeleteTask(1, t, s)
  \/ GetNextTask(1)

SpecFinal == Init /\ [][NextFinal]_vars

(* Cross ownership: two requests of one task each and a subtask, every     *)
(* operation called with every combination of their ids, the combinations  *)
(* in which the task is not of the request or the subtask not of the task  *)
(* included.                                                               *)
CrossIds == 1..MaxCrossRequests

CrossSubIds == 0..MaxCrossSubtasks

NextCross ==
  \/ /\ nextReq < MaxCrossRequests
     /\ RequestPlanning(OneSpec, HIGH, NoDue)
  \/ \E r \in CrossIds, t \in CrossIds :
       /\ nextSub < MaxCrossSubtasks
       /\ CreateSubtasks(r, t, OneSpec, None, NoDue)
  \/ \E r \in CrossIds, t \in CrossIds, s \in CrossSubIds :
       MarkTaskDone(r, t, s, COMPLETED, "D")
  \/ \E r \in CrossIds, t \in CrossIds, s \in CrossSubIds : ApproveTaskCompletion(r, t, s)
  \/ \E r \in CrossIds, t \in CrossIds, s \in CrossSubIds :
       NotifyTaskEvent(r, t, FAILED, s, "D")
  \/ \E r \in CrossIds, t \in CrossIds, s \in CrossSubIds :
       UpdateTask(r, t, s, "T2", 0, None, NoDue)

SpecCross == Init /\ [][NextCross]_vars

(* Re-marking: one task and its subtasks, marked again and again with any  *)
(* status while time passes, approved in between.                          *)
RemarkSubIds == 0..MaxRemarkSubtasks

NextRemark ==
  \/ /\ nextReq < 1
     /\ RequestPlanning(OneSpec, HIGH, NoDue)
  \/ /\ nextSub < MaxRemarkSubtasks
     /\ CreateSubtasks(1, 1, OneSpec, None, NoDue)
  \/ \E s \in RemarkSubIds, status \in Status : MarkTaskDone(1, 1, s, status, "D")
  \/ \E s \in RemarkSubIds : ApproveTaskCompletion(1, 1, s)
  \/ clock < TickSeconds * MaxRemarkTicks /\ Tick(TickSeconds)

SpecRemark == Init /\ [][NextRemark]_vars

(* Updates: tasks of MEDIUM priority and no due date and a subtask of the  *)
(* first; the last task is updated with every combination of absent, empty *)
(* and new values, the subtask in its title and due date, and the tasks    *)
(* are selected and completed in between.                                  *)
UpdateTitles == {None, "", "T2"}

UpdateDescriptions == {0, 5}

UpdatePriorities == {None, "", HIGH}

UpdateDues == {NoDue, Date_2024_01_01}

NextUpdate ==
  \/ /\ nextReq < 1
     /\ RequestPlanning([i \in 1..MaxUpdateTasks |-> OneSpec[1]], MEDIUM, NoDue)
  \/ /\ nextSub < MaxUpdateSubtasks
     /\ CreateSubtasks(1, 1, OneSpec, None, NoDue)
  \/ \E title \in UpdateTitles, description \in UpdateDescriptions,
         priority \in UpdatePriorities, due \in UpdateDues :
       UpdateTask(1, MaxUpdateTasks, NoId, title, description, priority, due)
  \/ \E s \in 1..MaxUpdateSubtasks, title \in UpdateTitles, due \in UpdateDues :
       UpdateTask(1, 1, s, title, 0, None, due)
  \/ GetNextTask(1)
  \/ \E t \in 1..MaxUpdateTasks : MarkTaskDone(1, t, NoId, COMPLETED, "D")

SpecUpdate == Init /\ [][NextUpdate]_vars

(* Creation: a request planned MEDIUM, tasks added and subtasks created    *)
(* with no priority, an empty one or LOW and with or without a due date,   *)
(* after the first task may have been updated to HIGH and selected.        *)
CreateBatches == {OneSpec, OneSpec \o OneSpec}

CreatePriorities == {None, "", LOW}

CreateDues == {NoDue, Date_2024_01_01}

NextCreate ==
  \/ \E batch \in CreateBatches, due \in {NoDue, Date_2024_06_30} :
       /\ nextReq < 1
       /\ nextTask + Len(batch) <= MaxCreateTasks
       /\ RequestPlanning(batch, MEDIUM, due)
  \/ \E batch \in CreateBatches, priority \in CreatePriorities, due \in CreateDues :
       /\ nextTask + Len(batch) <= MaxCreateTasks
       /\ AddTasksToRequest(1, batch, priority, due)
  \/ \E t \in 1..MaxCreateTasks, batch \in CreateBatches,
         priority \in CreatePriorities, due \in CreateDues :
       /\ nextSub + Len(batch) <= MaxCreateSubtasks
       /\ CreateSubtasks(1, t, batch, priority, due)
  \/ UpdateTask(1, 1, NoId, None, 0, HIGH, Date_9999_12_31)
  \/ GetNextTask(1)

SpecCreate == Init /\ [][NextCreate]_vars

(***************************************************************************)
(* Properties                                                              *)
(***************************************************************************)
ReqIds == 1..MaxRequests

TaskIds == 1..MaxTasks

SubIds == 1..MaxSubtasks

(* C1: get_next_task(r) returns only a task of r that was PENDING, the     *)
(* task is IN_PROGRESS right after the call, and no task is returned by    *)
(* get_next_task a second time, whatever was called in between.            *)
C1_SelectsPendingOnce ==
  [][\A r \in ReqIds :
       (GetNextTask(r) /\ ret'.status = "next_task")
         => /\ ret'.task \in Range(requests[r].tasks)
            /\ tasks[ret'.task].status = PENDING
            /\ tasks'[ret'.task].status = IN_PROGRESS
            /\ ret'.task \notin selected]_vars

(* the pending tasks of request r *)
PendingSet(r) == {u \in Range(requests[r].tasks) : tasks[u].status = PENDING}

(* get_next_task(r) is the step taken and it returned a task *)
Selects(r) == GetNextTask(r) /\ ret'.status = "next_task"

(* the ranks as the documentation gives them *)
DocumentedRank(p) ==
  IF p = "HIGH" THEN 3 ELSE IF p = "MEDIUM" THEN 2 ELSE IF p = "LOW" THEN 1 ELSE 0

(* C2: the task get_next_task returns has the highest priority rank        *)
(* (HIGH 3, MEDIUM 2, LOW 1, anything else 0) among the PENDING tasks of   *)
(* the request, whatever the creation order and the due dates.             *)
C2_HighestRankFirst ==
  [][Selects(1) =>
       \A u \in PendingSet(1) :
         DocumentedRank(tasks[u].priority) <= DocumentedRank(tasks[ret'.task].priority)]_vars

(* tasks created LOW, HIGH, MEDIUM without due dates have all been         *)
(* returned, the LOW one by the last call                                  *)
C2_Witness ==
  /\ Returned("get_next_task", "next_task") /\ ret.task = 1
  /\ DOMAIN tasks = {1, 2, 3}
  /\ <<tasks[1].priority, tasks[2].priority, tasks[3].priority>> = <<LOW, HIGH, MEDIUM>>
  /\ \A t \in 1..3 : tasks[t].due_date = NoDue /\ tasks[t].status = IN_PROGRESS

(* the calendar day a YYYY-MM-DD text denotes, as the number YYYYMMDD *)
Digit(c) == c - 48

DayNumber(d) ==
  (Digit(d[1]) * 1000 + Digit(d[2]) * 100 + Digit(d[3]) * 10 + Digit(d[4])) * 10000
    + (Digit(d[6]) * 10 + Digit(d[7])) * 100 + Digit(d[9]) * 10 + Digit(d[10])

(* the PENDING tasks of r with the priority of task x, other than x *)
Rivals(r, x) == {u \in PendingSet(r) \ {x} : tasks[u].priority = tasks[x].priority}

C4_AlreadyDoneKeepsRecord ==
  [][\A t \in TaskIds, status \in Status, details \in {None, "D"} :
       (/\ 1 \in DOMAIN requests /\ t \in DOMAIN tasks
        /\ tasks[t].status \in {COMPLETED, FAILED}
        /\ MarkTaskDone(1, t, NoId, status, details))
         => ret'.status = "already_done" /\ state' = state]_vars

(* a second call came after the clock had moved on from the first *)
C4_Witness ==
  /\ Returned("mark_task_done", "already_done")
  /\ \E t \in DOMAIN tasks :
       /\ tasks[t].status = COMPLETED
       /\ tasks[t].completed_at # NoTime /\ tasks[t].completed_at < clock

(* the record update_task and delete_task are aimed at *)
Target(t, s) == IF s = NoId THEN tasks[t] ELSE subtasks[s]

Exists(r, t, s) ==
  r \in DOMAIN requests /\ t \in DOMAIN tasks /\ (s = NoId \/ s \in DOMAIN subtasks)

(* C5: update_task and delete_task on a task or subtask that is COMPLETED  *)
(* or FAILED return "cannot_update" / "cannot_delete" and leave requests,  *)
(* tasks and subtasks as they were.                                        *)
C5_TerminalIsImmutable ==
  [][\A t \in Nested.taskIds, s \in Nested.subIds :
       (Exists(1, t, s) /\ Target(t, s).status \in {COMPLETED, FAILED})
         => /\ \A title \in Nested.newTitles :
                 UpdateTask(1, t, s, title, 0, None, NoDue)
                   => ret'.status = "cannot_update" /\ state' = state
            /\ DeleteTask(1, t, s)
                 => ret'.status = "cannot_delete" /\ state' = state]_vars

(* a delete was refused for a FAILED subtask of a task that is not closed *)
C5_Witness ==
  /\ Returned("delete_task", "cannot_delete")
  /\ \A t \in DOMAIN tasks : tasks[t].status \notin {COMPLETED, FAILED}
  /\ \E s \in DOMAIN subtasks : subtasks[s].status = FAILED

(* C7: approving a subtask moves the parent task to COMPLETED exactly when *)
(* after the approval the task has subtasks and all of them are approved;  *)
(* otherwise the approval leaves the task as it was.                       *)
C7_CascadeWhenAllApproved ==
  [][\A t \in Nested.taskIds, s \in SubIds :
       (Exists(1, t, s) /\ ApproveTaskCompletion(1, t, s) /\ ret'.status = "approved")
         => IF /\ tasks[t].subtasks # <<>>
               /\ \A x \in Range(tasks[t].subtasks) : subtasks'[x].approved
              THEN tasks'[t].status = COMPLETED
              ELSE tasks'[t] = tasks[t]]_vars

(* a task with two subtasks became COMPLETED by the approval of a subtask: *)
(* nothing else has written to the task (no completion details)            *)
C7_Witness ==
  /\ Returned("approve_task_completion", "approved") /\ ret.sub # NoId
  /\ \E t \in DOMAIN tasks :
       /\ Len(tasks[t].subtasks) = 2
       /\ \A x \in Range(tasks[t].subtasks) :
            subtasks[x].approved /\ subtasks[x].status = COMPLETED
       /\ tasks[t].status = COMPLETED /\ tasks[t].completed_details = None
       /\ ~tasks[t].approved

(* C8: approve_request_completion returns "incomplete" and leaves the      *)
(* request as it was when some owned task is not COMPLETED or not          *)
(* approved; otherwise it sets the request COMPLETED.                      *)
C8_FinalizationGate ==
  [][\A r \in ReqIds :
       (r \in DOMAIN requests /\ ApproveRequestCompletion(r))
         => IF \E u \in Range(requests[r].tasks) :
                  tasks[u].status # COMPLETED \/ ~tasks[u].approved
              THEN ret'.status = "incomplete" /\ requests' = requests
              ELSE ret'.status = "completed" /\ requests'[r].status = COMPLETED]_vars

(* refused although every task is COMPLETED: one of two lacks the approval *)
C8_Witness ==
  /\ Returned("approve_request_completion", "incomplete")
  /\ \E r \in DOMAIN requests :
       /\ Len(requests[r].tasks) = 2
       /\ \A u \in Range(requests[r].tasks) : tasks[u].status = COMPLETED
       /\ \E u, v \in Range(requests[r].tasks) : tasks[u].approved /\ ~tasks[v].approved
       /\ requests[r].status = PENDING /\ requests[r].completed_at = NoTime

(* C9: on a request planned with one task, each call of the sequence       *)
(* request_planning, get_next_task, mark_task_done (COMPLETED),            *)
(* approve_task_completion, approve_request_completion has the stated      *)
(* effect: PENDING request with one PENDING task; the task returned and    *)
(* IN_PROGRESS; COMPLETED; approved with role AUTO or AGENT; "completed",  *)
(* the request COMPLETED, task_count 1 and error_rate 0.                   *)
C9_EndToEnd ==
  [][/\ \A batch \in Batches(Lifecycle.specs, 1) :
          (Len(batch) = 1 /\ RequestPlanning(batch, HIGH, NoDue))
            => /\ ret'.status = "planned"
               /\ requests'[ret'.req].status = PENDING
               /\ Len(requests'[ret'.req].tasks) = 1
               /\ tasks'[requests'[ret'.req].tasks[1]].status = PENDING
     /\ \A r \in DOMAIN requests :
          Len(requests[r].tasks) = 1 =>
            LET t == requests[r].tasks[1]
            IN /\ (tasks[t].status = PENDING /\ GetNextTask(r))
                    => /\ ret'.status = "next_task" /\ ret'.task = t
                       /\ tasks'[t].status = IN_PROGRESS
               /\ (tasks[t].status = IN_PROGRESS /\ MarkTaskDone(r, t, NoId, COMPLETED, "D"))
                    => ret'.status = "task_done" /\ tasks'[t].status = COMPLETED
               /\ (tasks[t].status = COMPLETED /\ ApproveTaskCompletion(r, t, NoId))
                    => /\ ret'.status = "approved" /\ tasks'[t].approved
                       /\ tasks'[t].approval_role \in {AUTO, AGENT}
               /\ (tasks[t].status = COMPLETED /\ tasks[t].approved
                     /\ ApproveRequestCompletion(r))
                    => /\ ret'.status = "completed"
                       /\ requests'[r].status = COMPLETED
                       /\ ret'.metrics.task_count = 1
                       /\ ret'.metrics.error_rate[1] = 0]_vars

(* the request is closed and its one task went through get_next_task,      *)
(* completion and approval                                                 *)
C9_Witness ==
  /\ Returned("approve_request_completion", "completed")
  /\ ret.metrics.task_count = 1
  /\ requests[ret.req].status = COMPLETED
  /\ LET t == requests[ret.req].tasks[1]
     IN /\ t \in selected /\ tasks[t].status = COMPLETED
        /\ tasks[t].approved /\ tasks[t].approval_role \in {AUTO, AGENT}

(* C10: approve_task_completion on a task, or on the subtask named, whose  *)
(* status is not COMPLETED returns "not_completed" and changes no record:  *)
(* no approval field and no parent status.                                 *)
C10_ApprovalNeedsCompleted ==
  [][\A t \in Nested.taskIds, s \in Nested.subIds :
       (/\ Exists(1, t, s) /\ Target(t, s).status # COMPLETED
        /\ ApproveTaskCompletion(1, t, s))
         => ret'.status = "not_completed" /\ state' = state]_vars

(* refused for a FAILED subtask while the task itself is COMPLETED *)
C10_Witness ==
  /\ Returned("approve_task_completion", "not_completed")
  /\ \A t \in DOMAIN tasks : tasks[t].status = COMPLETED
  /\ \E s \in DOMAIN subtasks : subtasks[s].status = FAILED /\ ~subtasks[s].approved

(* s without its occurrences of x, the rest in order *)
RECURSIVE Dropped(_, _)
Dropped(s, x) ==
  IF s = <<>> THEN <<>>
  ELSE IF Head(s) = x THEN Dropped(Tail(s), x)
  ELSE <<Head(s)>> \o Dropped(Tail(s), x)

(* C6: deleting a task that is not COMPLETED or FAILED removes the task,   *)
(* every one of its subtasks and its id from the sequence of its request;  *)
(* every other task, subtask and request stays as it was and the other ids *)
(* of the sequence keep their order.                                       *)
C6_CascadingDelete ==
  [][\A r \in 1..MaxOwnedRequests, t \in 1..MaxOwnedTasks :
       (/\ Exists(r, t, NoId) /\ tasks[t].request_id = r
        /\ tasks[t].status \notin {COMPLETED, FAILED}
        /\ DeleteTask(r, t, NoId))
         => /\ ret'.status = "deleted"
            /\ DOMAIN tasks' = DOMAIN tasks \ {t}
            /\ \A u \in DOMAIN tasks' : tasks'[u] = tasks[u]
            /\ DOMAIN subtasks' = {x \in DOMAIN subtasks : subtasks[x].task_id # t}
            /\ \A x \in DOMAIN subtasks' : subtasks'[x] = subtasks[x]
            /\ DOMAIN requests' = DOMAIN requests
            /\ requests'[r] = [requests[r] EXCEPT !.tasks = Dropped(requests[r].tasks, t)]
            /\ \A q \in DOMAIN requests \ {r} : requests'[q] = requests[q]]_vars

(* the second of three tasks went with its two subtasks; the first and the *)
(* third keep their order and the subtask of the first is still there      *)
C6_Witness ==
  /\ Returned("delete_task", "deleted") /\ ret.task = 2 /\ ret.sub = NoId
  /\ 1 \in DOMAIN requests /\ requests[1].tasks = <<1, 3>>
  /\ nextSub = 3 /\ DOMAIN subtasks = {1}
  /\ subtasks[1].task_id = 1

(* the record of a task without what the approval step writes *)
ApartFromApproval(task) ==
  [task EXCEPT !.approved = FALSE, !.approved_at = NoTime,
               !.approval_role = None, !.confidence_score = NoScore]

(* C11: a task that is COMPLETED or FAILED keeps its record, apart from    *)
(* the four fields of the approval step, at every step: status,            *)
(* timestamps, detail texts, descriptive fields and subtask sequence.      *)
C11_TerminalTaskFrozen ==
  [][\A t \in DOMAIN tasks :
       Terminal(tasks[t])
         => /\ t \in DOMAIN tasks'
            /\ ApartFromApproval(tasks'[t]) = ApartFromApproval(tasks[t])]_vars

(* the confidence scores recorded in the tasks and subtasks *)
Scores ==
  {tasks[t].confidence_score : t \in DOMAIN tasks}
    \cup {subtasks[x].confidence_score : x \in DOMAIN subtasks}

(* C12 as stated: every recorded confidence score lies in [0, 1] and is,   *)
(* in hundredths, one of 55..85.                                           *)
C12_ScoreIn55To85 ==
  \A c \in Scores \ {NoScore} :
    /\ FloatGeq(c, <<0, 0>>) /\ FloatGeq(<<100, 0>>, c)
    /\ c[1] \in 55..85

(* C12 amended: every recorded confidence score lies in [0, 1] and is, in  *)
(* hundredths, one of 50..85 (0.70 - 0.10 - 0.10 is the least).            *)
C12_ScoreIn50To85 ==
  \A c \in Scores \ {NoScore} :
    /\ FloatGeq(c, <<0, 0>>) /\ FloatGeq(<<100, 0>>, c)
    /\ c[1] \in 50..85

(* the least and the greatest score are recorded: a task of more than 1000 *)
(* characters done in more than 300 s, a subtask of 50 done in under 30 s  *)
C12_Witness ==
  /\ 1 \in DOMAIN tasks /\ tasks[1].confidence_score = <<50, 0>>
  /\ 1 \in DOMAIN subtasks /\ subtasks[1].confidence_score = <<85, 0>>

(* the score of the formula in exact decimal arithmetic, in hundredths *)
DecimalScore(obj) ==
  70 + TimeFactor(ExecutionTime(obj)) + ComplexityFactor(obj.description)

(* C13: an approval records the role AUTO exactly when the score of the    *)
(* formula is at least 0.75 and AGENT otherwise (never MANAGER); a target  *)
(* done in under 30 s with a description under 50 characters scores 0.75   *)
(* and gets AUTO.                                                          *)
C13_RoleByFormula ==
  [][\A s \in 0..1 :
       (/\ ApproveTaskCompletion(1, 1, s)
        /\ ret'.status = "approved")
         => LET before == Target(1, s)
                after == IF s = NoId THEN tasks'[1] ELSE subtasks'[s]
            IN /\ after.approval_role \in {AUTO, AGENT}
               /\ after.approval_role = AUTO <=> DecimalScore(before) >= 75]_vars

(* the statuses of the tasks owned by request r *)
StatusesOf(r) == {tasks[u].status : u \in Range(requests[r].tasks)}

(* C14: the outcome of get_next_task follows from the statuses of the      *)
(* owned tasks: all_tasks_done iff all are COMPLETED, else next_task iff   *)
(* one is PENDING, else tasks_in_progress (nothing changed) iff one is     *)
(* IN_PROGRESS, else no_pending_tasks; and no_pending_tasks is returned    *)
(* exactly when all are COMPLETED or FAILED and at least one is FAILED.    *)
C14_OutcomeByStatuses ==
  [][(1 \in DOMAIN requests /\ GetNextTask(1))
       => LET S == StatusesOf(1)
          IN /\ ret'.status =
                  IF S \subseteq {COMPLETED} THEN "all_tasks_done"
                  ELSE IF PENDING \in S THEN "next_task"
                  ELSE IF IN_PROGRESS \in S THEN "tasks_in_progress"
                  ELSE "no_pending_tasks"
             /\ ret'.status = "tasks_in_progress" => UNCHANGED state
             /\ ret'.status = "no_pending_tasks"
                  <=> (S \subseteq {COMPLETED, FAILED} /\ FAILED \in S)]_vars

(* C15: notify_task_event with COMPLETED or FAILED sets the status of the  *)
(* target (the subtask if one is named, else the task) to the event        *)
(* whatever it was, approved or not; COMPLETED writes completed_at and     *)
(* completed_details, FAILED writes failed_at and failure_details, and     *)
(* nothing else of the record changes.                                     *)
C15_EventOverwrites ==
  [][\A s \in 0..1, event \in Event, details \in {"E"} :
       (Exists(1, 1, s) /\ NotifyTaskEvent(1, 1, event, s, details))
         => LET before == Target(1, s)
                after == IF s = NoId THEN tasks'[1] ELSE subtasks'[s]
            IN /\ ret'.status = "event_processed"
               /\ after.status = event
               /\ event = COMPLETED
                    => after = [before EXCEPT !.status = COMPLETED,
                                              !.completed_at = clock,
                                              !.completed_details = details]
               /\ event = FAILED
                    => after = [before EXCEPT !.status = FAILED,
                                              !.failed_at = clock,
                                              !.failure_details = details]]_vars

(* an approved COMPLETED task and an approved COMPLETED subtask were both  *)
(* notified FAILED later on: status FAILED, the approval still recorded    *)
C15_Witness ==
  /\ Returned("notify_task_event", "event_processed")
  /\ 1 \in DOMAIN tasks /\ 1 \in DOMAIN subtasks
  /\ tasks[1].approved /\ tasks[1].status = FAILED
  /\ tasks[1].completed_at = 0 /\ tasks[1].failed_at = TickSeconds
  /\ subtasks[1].approved /\ subtasks[1].status = FAILED
  /\ subtasks[1].failure_details = "E"

(* C16: notify_task_event with an event that is not COMPLETED or FAILED    *)
(* raises an error and leaves requests, tasks and subtasks as they were,   *)
(* with or without a subtask id: the validation error when the request and *)
(* the task exist (also when the subtask does not), else the not-found     *)
(* error.                                                                  *)
C16_InvalidEventRejected ==
  [][\A s \in 0..1, details \in {"E"} :
       NotifyTaskEvent(1, 1, "CANCELLED", s, details)
         => /\ UNCHANGED state
            /\ ret'.status = IF 1 \in DOMAIN requests /\ 1 \in DOMAIN tasks
                               THEN "invalid_event" ELSE "not_found"]_vars

(* the event was refused while the task was IN_PROGRESS and had a subtask  *)
C16_Witness ==
  /\ Returned("notify_task_event", "invalid_event")
  /\ 1 \in DOMAIN tasks /\ tasks[1].status = IN_PROGRESS
  /\ 1 \in DOMAIN subtasks

(* one of the ids passed is not a key of its mapping *)
Absent(r, t, s) ==
  r \notin DOMAIN requests \/ t \notin DOMAIN tasks
    \/ (s # NoId /\ s \notin DOMAIN subtasks)

NotFound == ret'.status = "not_found" /\ UNCHANGED state

(* the step is a call of op and one of its ids is absent *)
AbsentIn(op, r, t, s) == ret'.op = op /\ Absent(r, t, s)

(* the calls of the operations that take a request, task or subtask id,    *)
(* notify_task_event apart, with an id that is absent                      *)
AbsentIdCall(r, t, s) ==
  \/ AbsentIn("get_next_task", r, t, s) /\ r \notin DOMAIN requests /\ GetNextTask(r)
  \/ AbsentIn("approve_request_completion", r, t, s)
       /\ r \notin DOMAIN requests /\ ApproveRequestCompletion(r)
  \/ AbsentIn("add_tasks_to_request", r, t, s) /\ r \notin DOMAIN requests
       /\ \E batch \in Batches(Ids.specs, 1) : AddTasksToRequest(r, batch, None, NoDue)
  \/ AbsentIn("open_task_details", r, t, s) /\ t \notin DOMAIN tasks /\ OpenTaskDetails(t)
  \/ AbsentIn("create_subtasks", r, t, NoId)
       /\ \E batch \in Batches(Ids.specs, 1) : CreateSubtasks(r, t, batch, None, NoDue)
  \/ AbsentIn("mark_task_done", r, t, s) /\ MarkTaskDone(r, t, s, COMPLETED, "D")
  \/ AbsentIn("approve_task_completion", r, t, s) /\ ApproveTaskCompletion(r, t, s)
  \/ AbsentIn("update_task", r, t, s) /\ UpdateTask(r, t, s, "T2", 0, None, NoDue)
  \/ AbsentIn("delete_task", r, t, s) /\ DeleteTask(r, t, s)

(* C17 as stated: every operation given an absent request, task or subtask *)
(* id fails with the not-found error and changes no mapping.               *)
C17_AbsentIdNotFound ==
  [][\A r \in Ids.reqIds, t \in Ids.taskIds, s \in Ids.subIds :
       /\ AbsentIdCall(r, t, s) => NotFound
       /\ \A event \in Ids.events :
            (AbsentIn("notify_task_event", r, t, s)
               /\ NotifyTaskEvent(r, t, event, s, "D")) => NotFound]_vars

(* C17 amended: the same, except that notify_task_event, given a request   *)
(* and a task that exist, an event that is not COMPLETED or FAILED and an  *)
(* absent subtask id, fails with the invalid-event error (nothing changed).*)
C17_AbsentIdRejected ==
  [][\A r \in Ids.reqIds, t \in Ids.taskIds, s \in Ids.subIds :
       /\ AbsentIdCall(r, t, s) => NotFound
       /\ \A event \in Ids.events :
            (AbsentIn("notify_task_event", r, t, s)
               /\ NotifyTaskEvent(r, t, event, s, "D"))
              => /\ UNCHANGED state
                 /\ ret'.status =
                      IF ~Absent(r, t, NoId) /\ event \notin Event
                        THEN "invalid_event" ELSE "not_found"]_vars

(* a deletion was refused as not found although request 1, task 1 and      *)
(* subtask 1 exist: the id that is absent is a second one                  *)
C17_Witness ==
  /\ Returned("delete_task", "not_found")
  /\ DOMAIN requests = {1} /\ DOMAIN tasks = {1} /\ DOMAIN subtasks = {1}

(* C18: a creation that fails on a spec without title or description       *)
(* (KeyError) leaves requests, tasks and subtasks, and with them every     *)
(* sequence of owned ids, as they were before the call.                    *)
C18_NoPartialCommit ==
  [][ret'.status = "KeyError" => UNCHANGED state]_vars

(* the places where id x occurs in the sequences of owned ids of D *)
Places(D, field, x) ==
  {p \in (DOMAIN D) \X (1..MaxMalformedTasks) :
     p[2] <= Len(D[p[1]][field]) /\ D[p[1]][field][p[2]] = x}

(* C19: every id in the task sequence of a request is a task whose         *)
(* request_id is that request, every task is at exactly one place of the   *)
(* task sequences, every id in the subtask sequence of a task is a subtask *)
(* whose task_id is that task, and every subtask is at exactly one place   *)
(* of the subtask sequences.                                               *)
C19_OwnershipForest ==
  /\ \A r \in DOMAIN requests : \A t \in Range(requests[r].tasks) :
       t \in DOMAIN tasks /\ tasks[t].request_id = r
  /\ \A t \in DOMAIN tasks : Cardinality(Places(requests, "tasks", t)) = 1
  /\ \A t \in DOMAIN tasks : \A x \in Range(tasks[t].subtasks) :
       x \in DOMAIN subtasks /\ subtasks[x].task_id = t
  /\ \A x \in DOMAIN subtasks : Cardinality(Places(tasks, "subtasks", x)) = 1

(* C20: no step removes a request, and a step that changes the status of a *)
(* request takes it from PENDING to COMPLETED and is a successful          *)
(* approve_request_completion of that request; so a COMPLETED request      *)
(* keeps its status.                                                       *)
C20_RequestOnlyCompletes ==
  [][\A r \in DOMAIN requests :
       /\ r \in DOMAIN requests'
       /\ requests'[r].status # requests[r].status
            => /\ requests[r].status = PENDING
               /\ requests'[r].status = COMPLETED
               /\ ApproveRequestCompletion(r)
               /\ ret'.status = "completed"]_vars

(* tasks were added to a request after it was completed: it is still       *)
(* COMPLETED while it owns a PENDING task                                  *)
C20_Witness ==
  /\ Returned("add_tasks_to_request", "tasks_added")
  /\ 1 \in DOMAIN requests /\ requests[1].status = COMPLETED
  /\ \E t \in Range(requests[1].tasks) : tasks[t].status = PENDING

(* C21: a call of get_next_task that runs as a whole never returns the     *)
(* task that the call before it returned: the task it returns was PENDING  *)
(* and is IN_PROGRESS afterwards.  A call suspended between choosing its   *)
(* task and writing IN_PROGRESS returns the task of the call before it     *)
(* only when that task left PENDING while the call was suspended.          *)
C21_SameTaskOnlyWhenInterleaved ==
  [][/\ (GetNextTask(1) /\ ret'.status = "next_task")
          => /\ tasks[ret'.task].status = PENDING
             /\ tasks'[ret'.task].status = IN_PROGRESS
             /\ Returned("get_next_task", "next_task") => ret'.task # ret.task
     /\ \A th \in Threads :
          (/\ GetNextTaskWrite(th)
           /\ Returned("get_next_task", "next_task")
           /\ calls[th].task = ret.task)
            => tasks[ret.task].status # PENDING]_vars

(* the calls of the two threads have both returned the same task, while    *)
(* another task of the request is still PENDING and no task was ever       *)
(* marked                                                                  *)
C21_Witness ==
  /\ DOMAIN calls = Threads
  /\ \A th \in Threads : calls[th].pc = "returned"
  /\ calls[1].task = calls[2].task
  /\ \E u \in DOMAIN tasks : tasks[u].status = PENDING
  /\ \A u \in DOMAIN tasks : tasks[u].completed_details = None

(* C22: a call in which the sink raised has applied the whole state change *)
(* of the call: request_planning has stored the request and its tasks,     *)
(* mark_task_done has written the status and the details of its target,    *)
(* and approve_task_completion has approved its target and, for a subtask  *)
(* that was the last one to be approved, has set the parent COMPLETED.     *)
C22_SinkFailureKeepsMutation ==
  [][ret'.status = SinkError =>
       /\ \A batch \in Batches(OwnedSpecs, 1) :
            RequestPlanningSinkRaised(batch, HIGH, NoDue)
              => /\ nextReq' \in DOMAIN requests'
                 /\ Len(requests'[nextReq'].tasks) = Len(batch)
                 /\ Range(requests'[nextReq'].tasks) \subseteq DOMAIN tasks'
       /\ \A s \in SinkSubIds, status \in {COMPLETED, FAILED} :
            MarkTaskDoneSinkRaised(1, 1, s, status, "D")
              => LET obj == IF s # NoId THEN subtasks'[s] ELSE tasks'[1]
                 IN obj.status = status /\ obj.completed_details = "D"
       /\ \A s \in SinkSubIds :
            ApproveTaskCompletionSinkRaised(1, 1, s)
              => /\ IF s # NoId THEN subtasks'[s].approved ELSE tasks'[1].approved
                 /\ (s # NoId /\ AllSubtasksApproved(tasks[1], subtasks'))
                      => tasks'[1].status = COMPLETED]_vars

(* the position of task u in the task sequence of request r *)
PositionIn(r, u) == CHOOSE i \in 1..Len(requests[r].tasks) : requests[r].tasks[i] = u

(* the PENDING tasks of r that tie with task x on priority rank and due    *)
(* date (both without one, or both with the same one)                      *)
Ties(r, x) ==
  {u \in PendingSet(r) \ {x} :
     /\ DocumentedRank(tasks[u].priority) = DocumentedRank(tasks[x].priority)
     /\ tasks[u].due_date = tasks[x].due_date}

(* C23: the task get_next_task returns comes before every PENDING task     *)
(* that ties with it on priority rank and due date, in the task sequence   *)
(* of the request and in creation order, also after deletions and after    *)
(* add_tasks_to_request.                                                   *)
C23_TiesKeepCreationOrder ==
  [][Selects(1) =>
       \A u \in Ties(1, ret'.task) :
         /\ PositionIn(1, ret'.task) < PositionIn(1, u)
         /\ ret'.task < u
         /\ tasks[ret'.task].created_at <= tasks[u].created_at]_vars

(* the first task was deleted, two tasks were appended with the same       *)
(* priority and no due date, and the call has returned the earlier one     *)
C23_Witness ==
  /\ Returned("get_next_task", "next_task") /\ ret.task = 2
  /\ DOMAIN tasks = {2, 3}
  /\ requests[1].tasks = <<2, 3>>
  /\ tasks[3].status = PENDING
  /\ tasks[3].priority = tasks[2].priority
  /\ tasks[2].due_date = NoDue /\ tasks[3].due_date = NoDue

(* the calls the worker still has to make: three for a PENDING task, two   *)
(* for an IN_PROGRESS one, one for a COMPLETED one that is not approved,   *)
(* then the last get_next_task and approve_request_completion              *)
CallsLeft ==
  IF ret.op = "init" THEN 3 * MaxWorkerTasks + 3
  ELSE LET Owned(st) == {t \in Range(requests[1].tasks) : tasks[t].status = st}
       IN 3 * Cardinality(Owned(PENDING)) + 2 * Cardinality(Owned(IN_PROGRESS))
            + Cardinality({t \in Owned(COMPLETED) : ~tasks[t].approved})
            + (IF ret.op = "approve_request_completion" THEN 0
               ELSE IF Returned("get_next_task", "all_tasks_done") THEN 1 ELSE 2)

(* C24: the worker on a request of n tasks without subtasks comes to its   *)
(* end: every call it makes succeeds and leaves one call less to make, so  *)
(* it makes 3n + 2 calls after planning; get_next_task reports             *)
(* all_tasks_done after exactly n tasks were returned, each once; and      *)
(* approve_request_completion then returns "completed" with the request    *)
(* COMPLETED and no call left.                                             *)
C24_WorkerTerminates ==
  /\ [](ret.status \in {"None", "planned", "next_task", "task_done", "approved",
                        "all_tasks_done", "completed"})
  /\ [](Returned("get_next_task", "all_tasks_done")
          => /\ Cardinality(selected) = Len(requests[1].tasks)
             /\ selected = Range(requests[1].tasks))
  /\ [](ret.op = "approve_request_completion"
          => /\ ret.status = "completed"
             /\ requests[1].status = COMPLETED
             /\ CallsLeft = 0)
  /\ [](Returned("request_planning", "planned")
          => CallsLeft = 3 * Len(requests[1].tasks) + 2)
  /\ [][/\ WorkerSelects /\ ret'.status = "next_task" => ret'.task \notin selected
        /\ CallsLeft' < CallsLeft
        /\ ret.op # "init" => CallsLeft' = CallsLeft - 1]_vars

(* the worker has closed a request of MaxWorkerTasks tasks *)
C24_Witness ==
  /\ Returned("approve_request_completion", "completed")
  /\ requests[1].status = COMPLETED
  /\ Len(requests[1].tasks) = MaxWorkerTasks
  /\ Cardinality(selected) = MaxWorkerTasks

(* every task request r owns is COMPLETED and approved *)
OwnsOnlyApproved(r) ==
  \A t \in Range(requests[r].tasks) :
    t \in DOMAIN tasks /\ tasks[t].status = COMPLETED /\ tasks[t].approved

(* C25, as stated: a COMPLETED request owns only tasks that are COMPLETED  *)
(* and approved, in every reachable state.                                 *)
C25_CompletedOwnsOnlyApproved ==
  \A r \in DOMAIN requests : requests[r].status = COMPLETED => OwnsOnlyApproved(r)

(* C25, amended: a request that approve_request_completion completes owns  *)
(* only tasks that are COMPLETED and approved, and a COMPLETED request     *)
(* keeps owning only such tasks under every operation other than           *)
(* add_tasks_to_request and notify_task_event with FAILED on a task.       *)
C25_FinalizedUntilAddOrFail ==
  [][/\ (ApproveRequestCompletion(1) /\ ret'.status = "completed") => OwnsOnlyApproved(1)'
     /\ (/\ 1 \in DOMAIN requests
         /\ requests[1].status = COMPLETED
         /\ OwnsOnlyApproved(1)
         /\ ~OwnsOnlyApproved(1)')
          => \/ ret'.op = "add_tasks_to_request"
             \/ /\ ret'.op = "notify_task_event"
                /\ ret'.sub = NoId
                /\ tasks[ret'.task].status = COMPLETED
                /\ tasks'[ret'.task].status = FAILED]_vars

(* a subtask was created under a task of a finalized request: the request *)
(* still owns only COMPLETED and approved tasks                            *)
C25_Witness ==
  /\ Returned("create_subtasks", "subtasks_created")
  /\ requests[1].status = COMPLETED
  /\ Len(requests[1].tasks) = MaxFinalTasks
  /\ tasks[1].subtasks # <<>>
  /\ OwnsOnlyApproved(1)

(* C26: when the approval of a subtask moves the parent task to COMPLETED, *)
(* every subtask of that task has status COMPLETED.                        *)
C26_CascadeOnlyOverCompleted ==
  [][\A s \in SubIds :
       (/\ ret'.op = "approve_task_completion"
        /\ 1 \in DOMAIN tasks
        /\ ApproveTaskCompletion(1, 1, s)
        /\ tasks[1].status # COMPLETED
        /\ tasks'[1].status = COMPLETED)
         => \A u \in Range(tasks[1].subtasks) : subtasks'[u].status = COMPLETED]_vars

(* C27: no operation clears the approved flag of a task or a subtask that  *)
(* stays in its mapping; notify_task_event with FAILED on an approved      *)
(* COMPLETED task leaves it FAILED and approved; and                       *)
(* approve_request_completion on a request that owns such a task returns   *)
(* "incomplete" and leaves the request as it was.                          *)
C27_ApprovedNeverCleared ==
  [][/\ \A t \in DOMAIN tasks \cap DOMAIN tasks' : tasks[t].approved => tasks'[t].approved
     /\ \A s \in DOMAIN subtasks \cap DOMAIN subtasks' :
          subtasks[s].approved => subtasks'[s].approved
     /\ \A t \in DOMAIN tasks :
          (/\ ret'.op = "notify_task_event"
           /\ tasks[t].approved /\ tasks[t].status = COMPLETED
           /\ NotifyTaskEvent(1, t, FAILED, NoId, "D"))
            => tasks'[t].status = FAILED /\ tasks'[t].approved
     /\ (/\ ret'.op = "approve_request_completion"
         /\ ApproveRequestCompletion(1)
         /\ 1 \in DOMAIN requests
         /\ \E t \in Range(requests[1].tasks) : tasks[t].status = FAILED /\ tasks[t].approved)
          => ret'.status = "incomplete" /\ UNCHANGED requests]_vars

(* every task of the request is approved, one of them was notified FAILED  *)
(* after its approval, and approve_request_completion returned incomplete  *)
C27_Witness ==
  /\ Returned("approve_request_completion", "incomplete")
  /\ requests[1].status = PENDING
  /\ \A t \in Range(requests[1].tasks) : tasks[t].approved
  /\ \E t \in Range(requests[1].tasks) :
       tasks[t].status = FAILED /\ tasks[t].failure_details = "D"

(* C28: a task that has subtasks is approved only while every one of its   *)
(* subtasks is approved.                                                   *)
C28_ApprovedOnlyWithSubtasks ==
  \A t \in DOMAIN tasks :
    (tasks[t].subtasks # <<>> /\ tasks[t].approved)
      => \A s \in Range(tasks[t].subtasks) \cap DOMAIN subtasks : subtasks[s].approved

(* C29: right after the approval of a subtask has set the parent task      *)
(* COMPLETED, the parent is not approved and approve_request_completion    *)
(* would return "incomplete".                                              *)
C29_CascadeLeavesUnapproved ==
  [][\A s \in SubIds :
       (/\ ret'.op = "approve_task_completion"
        /\ 1 \in DOMAIN tasks
        /\ ApproveTaskCompletion(1, 1, s)
        /\ ret'.status = "approved"
        /\ AllSubtasksApproved(tasks[1], subtasks'))
         => /\ tasks'[1].status = COMPLETED
            /\ ~tasks'[1].approved
            /\ ~AllCompletedAndApproved(1)']_vars

(* the ids exist, but task t is not a task of request r, or subtask s is   *)
(* not a subtask of task t                                                 *)
Foreign(r, t, s) ==
  /\ r \in DOMAIN requests /\ t \in DOMAIN tasks
  /\ s # NoId => s \in DOMAIN subtasks
  /\ \/ t \notin Range(requests[r].tasks)
     \/ s # NoId /\ s \notin Range(tasks[t].subtasks)

(* C30: mark_task_done, approve_task_completion, notify_task_event,        *)
(* update_task and create_subtasks called with an existing task of         *)
(* another request, or an existing subtask of another task, change no task *)
(* and no subtask.                                                         *)
C30_ForeignIdsChangeNothing ==
  [][\A r \in CrossIds, t \in CrossIds, s \in CrossSubIds :
       (/\ Foreign(r, t, s)
        /\ \/ MarkTaskDone(r, t, s, COMPLETED, "D")
           \/ ApproveTaskCompletion(r, t, s)
           \/ NotifyTaskEvent(r, t, FAILED, s, "D")
           \/ UpdateTask(r, t, s, "T2", 0, None, NoDue)
           \/ s = NoId /\ CreateSubtasks(r, t, OneSpec, None, NoDue))
         => UNCHANGED <<tasks, subtasks>>]_vars

(* C31, as stated: a subtask that is COMPLETED or FAILED stays in the      *)
(* subtask mapping at every step.                                          *)
C31_TerminalSubtaskKept ==
  [][\A s \in DOMAIN subtasks : Terminal(subtasks[s]) => s \in DOMAIN subtasks']_vars

(* C31, amended: delete_task naming a COMPLETED or FAILED subtask returns  *)
(* "cannot_delete" and removes nothing; a COMPLETED or FAILED subtask      *)
(* leaves the mapping only with its parent, when delete_task deletes a     *)
(* parent task that is not COMPLETED or FAILED, and that call removes      *)
(* every subtask of the task, whatever its status.                         *)
C31_TerminalSubtaskGoesWithParent ==
  [][/\ \A s \in DOMAIN subtasks :
          (Terminal(subtasks[s]) /\ s \notin DOMAIN subtasks')
            => /\ ret'.op = "delete_task" /\ ret'.status = "deleted"
               /\ ret'.sub = NoId
               /\ s \in Range(tasks[ret'.task].subtasks)
               /\ ~Terminal(tasks[ret'.task])
               /\ ret'.task \notin DOMAIN tasks'
     /\ \A s \in DOMAIN subtasks :
          (/\ ret'.op = "delete_task"
           /\ 1 \in DOMAIN tasks
           /\ Terminal(subtasks[s])
           /\ DeleteTask(1, 1, s))
            => ret'.status = "cannot_delete" /\ UNCHANGED <<requests, tasks, subtasks>>
     /\ (/\ ret'.op = "delete_task"
         /\ 1 \in DOMAIN tasks
         /\ DeleteTask(1, 1, NoId)
         /\ ret'.status = "deleted")
          => Range(tasks[1].subtasks) \cap DOMAIN subtasks' = {}]_vars

(* the task was deleted after both of its subtasks had been created: none  *)
(* of the three records is left                                            *)
C31_Witness ==
  /\ Returned("delete_task", "deleted") /\ ret.task = 1 /\ ret.sub = NoId
  /\ nextSub = MaxSubtasks
  /\ DOMAIN tasks = {} /\ DOMAIN subtasks = {}
  /\ requests[1].tasks = <<>>

(* C32: mark_task_done with a subtask id sets that subtask's status,       *)
(* completed_at and completed_details whatever its prior state (COMPLETED, *)
(* FAILED and approved subtasks are overwritten too), and leaves the       *)
(* parent task, every other subtask and the request unchanged.             *)
C32_SubtaskMarkedUnguarded ==
  [][\A s \in DOMAIN subtasks, status \in Status :
       (/\ ret'.op = "mark_task_done" /\ 1 \in DOMAIN tasks
        /\ MarkTaskDone(1, 1, s, status, "D"))
         => /\ ret'.status = "task_done"
            /\ subtasks'[s].status = status
            /\ subtasks'[s].completed_at = clock
            /\ subtasks'[s].completed_details = "D"
            /\ \A f \in DOMAIN subtasks[s] :
                 f \notin {"status", "completed_at", "completed_details"}
                   => subtasks'[s][f] = subtasks[s][f]
            /\ DOMAIN subtasks' = DOMAIN subtasks
            /\ \A o \in DOMAIN subtasks \ {s} : subtasks'[o] = subtasks[o]
            /\ UNCHANGED <<requests, tasks>>]_vars

(* an approved subtask completed at time 0 has been re-marked FAILED at a  *)
(* later time, next to another subtask that is still as it was created     *)
C32_Witness ==
  /\ Returned("mark_task_done", "task_done") /\ ret.sub = 1
  /\ 2 \in DOMAIN subtasks
  /\ subtasks[1].approved /\ subtasks[1].approved_at = 0
  /\ subtasks[1].status = FAILED /\ subtasks[1].completed_at > 0
  /\ subtasks[2].status = PENDING /\ subtasks[2].completed_at = NoTime

(* the fields update_task can write *)
Descriptive == {"title", "description", "priority", "due_date"}

(* every record but the target of update_task(t, s) is as it was *)
OthersUnchanged(t, s) ==
  /\ UNCHANGED requests
  /\ DOMAIN tasks' = DOMAIN tasks /\ DOMAIN subtasks' = DOMAIN subtasks
  /\ \A o \in DOMAIN tasks : (s # NoId \/ o # t) => tasks'[o] = tasks[o]
  /\ \A o \in DOMAIN subtasks : o # s => subtasks'[o] = subtasks[o]

CreatedWith(D, old, ids, priority, due) ==
  \A i \in 1..Len(ids) :
    /\ ids[i] \notin old
    /\ D[ids[i]].status = PENDING
    /\ D[ids[i]].priority = priority
    /\ D[ids[i]].due_date = due

(* C34: tasks created by request_planning start PENDING with the           *)
(* request-level priority and due date; tasks created by                   *)
(* add_tasks_to_request are appended after the existing task ids, start    *)
(* PENDING, and take the request's priority and due date when none is      *)
(* supplied and the supplied values otherwise; subtasks created by         *)
(* create_subtasks do the same relative to their parent task's current     *)
(* priority and due date.                                                  *)
C34_CreatedPendingAndInheriting ==
  [][/\ \A batch \in CreateBatches, priority \in {MEDIUM}, due \in {NoDue, Date_2024_06_30} :
         (/\ ret'.op = "request_planning" /\ RequestPlanning(batch, priority, due))
           => /\ ret'.status = "planned"
              /\ Len(requests'[ret'.req].tasks) = Len(batch)
              /\ requests'[ret'.req].priority = priority
              /\ requests'[ret'.req].due_date = due
              /\ CreatedWith(tasks', DOMAIN tasks, requests'[ret'.req].tasks, priority, due)
     /\ \A batch \in CreateBatches, priority \in CreatePriorities, due \in CreateDues :
         (/\ ret'.op = "add_tasks_to_request" /\ 1 \in DOMAIN requests
          /\ AddTasksToRequest(1, batch, priority, due))
           => /\ ret'.status = "tasks_added"
              /\ Len(requests'[1].tasks) = Len(requests[1].tasks) + Len(batch)
              /\ SubSeq(requests'[1].tasks, 1, Len(requests[1].tasks)) = requests[1].tasks
              /\ CreatedWith(tasks', DOMAIN tasks,
                             SubSeq(requests'[1].tasks, Len(requests[1].tasks) + 1,
                                    Len(requests'[1].tasks)),
                             IF priority = None THEN requests[1].priority ELSE priority,
                             IF due = NoDue THEN requests[1].due_date ELSE due)
              /\ \A t \in DOMAIN tasks : tasks'[t] = tasks[t]
     /\ \A t \in DOMAIN tasks, batch \in CreateBatches,
          priority \in CreatePriorities, due \in CreateDues :
         (/\ ret'.op = "create_subtasks" /\ 1 \in DOMAIN requests
          /\ CreateSubtasks(1, t, batch, priority, due))
           => /\ ret'.status = "subtasks_created"
              /\ Len(tasks'[t].subtasks) = Len(tasks[t].subtasks) + Len(batch)
              /\ SubSeq(tasks'[t].subtasks, 1, Len(tasks[t].subtasks)) = tasks[t].subtasks
              /\ CreatedWith(subtasks', DOMAIN subtasks,
                             SubSeq(tasks'[t].subtasks, Len(tasks[t].subtasks) + 1,
                                    Len(tasks'[t].subtasks)),
                             IF priority = None THEN tasks[t].priority ELSE priority,
                             IF due = NoDue THEN tasks[t].due_date ELSE due)
              /\ \A s \in DOMAIN subtasks : subtasks'[s] = subtasks[s]]_vars

(* the request is MEDIUM and due 2024-06-30; its first task was updated to *)
(* HIGH and selected; the second task was added with an empty priority and *)
(* no due date; a subtask of the first task was then created with neither  *)
(* and one of the second with LOW and a due date                           *)
C34_Witness ==
  /\ Returned("create_subtasks", "subtasks_created")
  /\ DOMAIN tasks = {1, 2} /\ DOMAIN subtasks = {1, 2}
  /\ requests[1].priority = MEDIUM /\ requests[1].due_date = Date_2024_06_30
  /\ requests[1].tasks = <<1, 2>>
  /\ tasks[1].priority = HIGH /\ tasks[1].status = IN_PROGRESS
  /\ tasks[2].priority = "" /\ tasks[2].due_date = Date_2024_06_30
  /\ tasks[2].status = PENDING
  /\ \E a, b \in {1, 2} :
       /\ subtasks[a].task_id = 1 /\ subtasks[a].priority = HIGH
       /\ subtasks[a].due_date = Date_9999_12_31 /\ subtasks[a].status = PENDING
       /\ subtasks[b].task_id = 2 /\ subtasks[b].priority = LOW
       /\ subtasks[b].due_date = Date_2024_01_01

(* C35: with mark_task_done called only with COMPLETED or FAILED, no       *)
(* operation sets a task or subtask back to PENDING, and a task that is    *)
(* COMPLETED or FAILED does not become IN_PROGRESS again: get_next_task    *)
(* does not return it.                                                     *)
C35_StatusOneDirectional ==
  [][/\ \A t \in DOMAIN tasks \cap DOMAIN tasks' :
         /\ tasks[t].status # PENDING => tasks'[t].status # PENDING
         /\ tasks[t].status \in {COMPLETED, FAILED}
              => /\ tasks'[t].status # IN_PROGRESS
                 /\ ~(/\ ret'.op = "get_next_task" /\ ret'.status = "next_task"
                      /\ ret'.task = t)
     /\ \A s \in DOMAIN subtasks \cap DOMAIN subtasks' :
         subtasks[s].status # PENDING => subtasks'[s].status # PENDING]_vars

(* the task was selected, then marked FAILED, and a later get_next_task    *)
(* found nothing to select; a subtask of it had been marked as well        *)
C35_Witness ==
  /\ Returned("get_next_task", "no_pending_tasks")
  /\ 1 \in selected /\ 1 \in DOMAIN tasks
  /\ tasks[1].status = FAILED /\ tasks[1].completed_at # NoTime
  /\ \E s \in DOMAIN subtasks : subtasks[s].status = COMPLETED

(* C36: in every reachable state, the request_id back-reference of every   *)
(* subtask equals the request_id of the task that owns it.                 *)
C36_SubtaskRequestIsOwnersRequest ==
  \A t \in DOMAIN tasks : \A s \in Range(tasks[t].subtasks) \cap DOMAIN subtasks :
    subtasks[s].request_id = tasks[t].request_id

(* C37: on every successful approve_request_completion the workflow        *)
(* metrics have error_rate = 0, success_rate = 1 and task_count equal to   *)
(* the number of tasks the request owns: no FAILED task is counted.        *)
C37_FinalizedWithoutErrors ==
  Returned("approve_request_completion", "completed")
    => /\ ret.metrics.error_rate[1] = 0
       /\ ret.metrics.success_rate[1] = ret.metrics.success_rate[2]
       /\ ret.metrics.task_count = Len(requests[ret.req].tasks)
       /\ \A t \in Range(requests[ret.req].tasks) : tasks[t].status # FAILED

(* a request of two tasks has been completed, one of which had failed      *)
(* before an event completed it                                            *)
C37_Witness ==
  /\ Returned("approve_request_completion", "completed")
  /\ ret.metrics.task_count = 2
  /\ \E t \in Range(requests[ret.req].tasks) : tasks[t].failed_at # NoTime

(* C38: for a request that owns no task (planned with an empty batch, or   *)
(* all of its tasks deleted), get_next_task reports "all_tasks_done" and   *)
(* approve_request_completion sets the request COMPLETED, with             *)
(* task_count = 0 and every rate computed without a division by zero.      *)
C38_EmptyRequestCompletes ==
  [][\A r \in DOMAIN requests :
       requests[r].tasks = <<>>
         => /\ (ret'.op = "get_next_task" /\ GetNextTask(r))
                 => ret'.status = "all_tasks_done" /\ state' = state
            /\ (ret'.op = "approve_request_completion" /\ ApproveRequestCompletion(r))
                 => /\ ret'.status = "completed"
                    /\ requests'[r].status = COMPLETED
                    /\ ret'.metrics.task_count = 0
                    /\ ret'.metrics.auto_approval_rate = <<0, 1>>
                    /\ ret'.metrics.error_rate = <<0, 1>>
                    /\ ret'.metrics.avg_task_time = <<0, 1>>
                    /\ ret'.metrics.success_rate = <<1, 1>>]_vars

(* both tasks the request was planned with have been deleted, and the      *)
(* request was completed then                                              *)
C38_Witness ==
  /\ Returned("approve_request_completion", "completed")
  /\ ret.metrics.task_count = 0
  /\ nextTask = MaxTasks /\ DOMAIN tasks = {}
  /\ requests[ret.req].tasks = <<>> /\ requests[ret.req].status = COMPLETED

====
